---- MODULE Spec2Model ----
(***************************************************************************)
(* Voice session lifecycle of AudioPlayer (voice/player) and its callers.  *)
(*                                                                         *)
(* One AudioPlayer instance is modelled.  Every async method is a task     *)
(* that runs synchronously up to its next `await`; the step that resumes   *)
(* it chooses the outcome of the awaited external call.  Tasks started by  *)
(* the host interleave at their awaits, as they do on the Node event loop. *)
(* `out` holds what the last step did that is visible from outside: host   *)
(* calls, requests to the signaling endpoint, transport calls and emitted  *)
(* notifications ("debug" diagnostics are not recorded).                   *)
(***************************************************************************)
EXTENDS Integers, Sequences, FiniteSets, TLC

\* Bounds of the model.
MaxTasks == 2     \* async calls of the host in flight at the same time
MaxCalls == 3     \* host calls in one behaviour
MaxRooms == 2     \* Room objects created in one behaviour
MaxTracks == 2    \* audio sources / tracks created in one behaviour
MaxChunks == 2    \* chunks of one playback
MaxPlayers == 2   \* AudioPlayer objects a VoiceClient creates in one behaviour
MaxRequests == 4  \* calls of RateLimitQueue.request in one behaviour
MaxLimit == 2     \* highest x-ratelimit-limit a response reports

\* samplesPerChunk of publishPCMAudio: 100 ms at 48 kHz, mono.
SamplesPerChunk == 4800

Channels == {"c1", "c2"}
Servers == {"s1", "s2"}
RequestIds == 1 .. MaxRequests
Slots == 1 .. MaxTasks
RoomIds == 1 .. MaxRooms

VARIABLES
  channelId,        \* this.channelId
  room,             \* this.room: 0 is undefined, else a Room id
  rooms,            \* the Room objects created so far: transport state and channel
  publications,     \* keys of this.publications (track sids)
  audioSources,     \* keys of this.audioSources
  isConnected,      \* this.isConnected
  shouldStop,       \* this.shouldStop
  isStreaming,      \* this.isStreaming
  onceDisconnected, \* a once("disconnected") listener of a live playback is registered
  tasks,            \* the async calls in flight, one per slot
  nSources,         \* audio sources created so far
  nCalls,           \* host calls made so far
  volume,           \* this._volume, counted in quarters (4 is 1.0, 8 is 2.0), or NaN
  nodeAV,           \* the capability probe of nodeAVProcessor: "probing" | "loaded" | "missing"
  players,          \* VoiceClient.players: the player registered for a server id (0: none)
  nPlayers,         \* AudioPlayer objects the VoiceClient has created
  vtasks,           \* the calls of VoiceClient methods in flight
  errorListener,    \* listenerCount("error") > 0: the host listens to "error"
  bucketMap,        \* RateLimitQueue: the BucketState of the one bucket, and its clock
  requests,         \* RateLimitQueue: the promises request() returned, by request id
  out               \* externally visible effects of the last step, in order

vars == <<channelId, room, rooms, publications, audioSources, isConnected, shouldStop,
          isStreaming, onceDisconnected, tasks, nSources, nCalls, volume, nodeAV,
          players, nPlayers, vtasks, errorListener, bucketMap, requests, out>>

IdleTask ==
  [stk |-> <<>>, pc |-> "idle", ch |-> "-", trk |-> 0, cur |-> 0, rm |-> 0,
   left |-> 0, src |-> 0, mode |-> "-", dec |-> "-", lsn |-> FALSE, killed |-> FALSE,
   lp |-> FALSE, ufail |-> FALSE, reqs |-> <<>>, why |-> "-", cancelled |-> FALSE,
   sw |-> FALSE, infl |-> 0, last |-> 0, url |-> "none", tried |-> {},
   gain |-> [nan |-> FALSE, q |-> 4], len |-> 0]

\* Fields of a task: stk, the methods on its call stack (outermost first); pc, the await
\* it is suspended at; ch, channelToConnect; trk/cur, the track stop() is unpublishing;
\* rm, the Room its pending transport call was made on; left, what is not yet sent:
\* the samples of the buffer from offset on (finite mode), the decoder's chunks (live);
\* gain, the volume its volumeAdjustedPCM was computed with;
\* infl, captureFrame calls of its live handlers not yet settled;
\* url, what the URL it plays contains of "stream" and "radio";
\* src, its audio source; mode/dec, delivery mode and decoder; lsn/killed, its
\* once-listener and whether it killed ffmpeg; lp, whether the awaited unpublish was
\* sent.  Observers: reqs, the join_call requests of its connect() with their answers;
\* why, the reason connect() or the decoder failed; ufail, an unpublish of its stop() failed;
\* cancelled, stop() was called while it was delivering; sw, its connect() disconnected
\* the session first; last, the number of the last chunk it handed to captureFrame (0: none);
\* tried, the tracks its stop-all loop called unpublishTrack for.
\* The chunks of a playback are numbered by what remains to be sent when they are handed
\* over: the first chunk has the highest number; in live mode the last chunk is number 1.

PlayKinds == {"playStream", "playFile", "playUrl"}

\* The state as one record, so that the synchronous stretches of the methods compose.
Cur ==
  [channelId |-> channelId, room |-> room, rooms |-> rooms, pubs |-> publications,
   srcs |-> audioSources, isConnected |-> isConnected, shouldStop |-> shouldStop,
   isStreaming |-> isStreaming, once |-> onceDisconnected, tasks |-> tasks,
   nSources |-> nSources, nodeAV |-> nodeAV, volume |-> volume,
   errorListener |-> errorListener, out |-> <<>>]

Commit(s) ==
  /\ channelId' = s.channelId
  /\ room' = s.room
  /\ rooms' = s.rooms
  /\ publications' = s.pubs
  /\ audioSources' = s.srcs
  /\ isConnected' = s.isConnected
  /\ shouldStop' = s.shouldStop
  /\ isStreaming' = s.isStreaming
  /\ onceDisconnected' = s.once
  /\ tasks' = s.tasks
  /\ nSources' = s.nSources
  /\ out' = s.out
  /\ UNCHANGED <<volume, nodeAV, players, nPlayers, vtasks, errorListener, bucketMap, requests>>

Ev(op, t, x, y, ch, n) ==
  [op |-> op, t |-> t, x |-> x, y |-> y, ch |-> ch, n |-> n, q |-> <<>>, k |-> 0,
   arg |-> <<>>, res |-> <<>>]

Put(s, e) == [s EXCEPT !.out = Append(@, e)]

\* this.emit(name, ...) for every notification but "disconnected".
Emit(s, t, name, y) == Put(s, Ev("emit", t, name, y, "-", 0))

\* this.emit("audioEnd", source, type) in the end callbacks of playStreamingAudio: inside
\* its try block `source` is the AudioSource declared there, not the parameter; n is
\* that object, y the type.
EmitEndOfSource(s, t) == Put(s, Ev("emit", t, "audioEnd", "url", "-", s.tasks[t].src))

\* A promise the task in slot t awaits rejects.
Rejected(s, t, fn, y) == Put(s, Ev("reject", t, fn, y, "-", 0))

\* this.emit("disconnected", channelId, serverId, reason): the once-listeners that live
\* playbacks registered run inside the emit: isStreaming = false, ffmpeg.kill().
EmitDisconnected(s, t, reason) ==
  LET s1 == Put(s, Ev("emit", t, "disconnected", reason, s.channelId, 0)) IN
  IF s1.once
    THEN [s1 EXCEPT !.isStreaming = FALSE, !.once = FALSE,
                    !.tasks = [u \in Slots |->
                                 IF s1.tasks[u].lsn /\ s1.tasks[u].dec = "ff"
                                   THEN [s1.tasks[u] EXCEPT !.killed = TRUE]
                                   ELSE s1.tasks[u]]]
    ELSE s1

\* The call in slot t settles (how: "ret" | "throw") or stays pending forever ("hang").
End(s, t, how, fn) ==
  [Put(s, [Ev(how, t, fn, s.tasks[t].why, s.tasks[t].ch, 0) EXCEPT !.q = s.tasks[t].reqs])
     EXCEPT !.tasks[t] = IdleTask]

\* A method of the task in slot t returns or throws.
Settled(s, t, how, fn, y) ==
  Put(s, [Ev(how, t, fn, y, s.tasks[t].ch, 0) EXCEPT !.q = s.tasks[t].reqs])

\* A request to the signaling endpoint is sent / answered.
Request(s, t, m) ==
  Put([s EXCEPT !.tasks[t].reqs = Append(@, [m |-> m, r |-> "pending"])],
      Ev(m, t, "", "", s.tasks[t].ch, 0))
Answered(s, t, res) == [s EXCEPT !.tasks[t].reqs[Len(s.tasks[t].reqs)].r = res]

Push(s, t, fn) == [s EXCEPT !.tasks[t].stk = Append(@, fn)]
Pop(s, t) == [s EXCEPT !.tasks[t].stk = SubSeq(@, 1, Len(@) - 1)]
Top(s, t) == s.tasks[t].stk[Len(s.tasks[t].stk)]

\* room.localParticipant exists once the Room has connected.
HasLocalParticipant(s, r) == r # 0 /\ s.rooms[r].st \in {"connected", "released"}

(***************************************************************************)
(* Playback: play, playFromFile, playFromUrl, playFromStream,              *)
(* playStreamingAudio, convertAudioToPCM, publishPCMAudio                  *)
(***************************************************************************)

\* A rejection inside the playback body, as each entry point propagates it.
PlayFail(s, t) ==
  LET k == s.tasks[t].stk[1] IN
  IF k = "playStream" THEN End(s, t, "throw", "play")
  ELSE IF k = "playFile"
    THEN End(Emit(Emit(s, t, "audioError", "file"), t, "error", "file-playback"),
                t, "throw", "play")
  ELSE End(Emit(Emit(s, t, "audioError", "url"), t, "error",
                   IF s.tasks[t].mode = "live" THEN "url-streaming" ELSE "url-standard"),
              t, "hang", "play")

\* The delivery resolved.
PlayDone(s, t) ==
  LET k == s.tasks[t].stk[1] IN
  IF k = "playStream" THEN End(Emit(s, t, "audioEnd", "stream"), t, "ret", "play")
  ELSE IF k = "playFile" THEN End(Emit(s, t, "audioEnd", "file"), t, "ret", "play")
  ELSE IF s.tasks[t].mode = "live"
    THEN End(Emit(s, t, "audioEnd", "URL playback completed"), t, "ret", "play")
  ELSE End(Emit(s, t, "audioEnd", "url"), t, "ret", "play")

\* Variant of ChunkSize: every chunk has samplesPerChunk samples.
ChunkSizeWhole(left) == SamplesPerChunk

\* chunkEnd - offset = Math.min(offset + samplesPerChunk, length) - offset, for a buffer
\* of which `left` samples remain from offset on.
ChunkSize(left) == IF left < SamplesPerChunk THEN left ELSE SamplesPerChunk

\* volumeAdjustedPCM.slice(offset, chunkEnd) of a buffer of len samples of which `left`
\* remain, computed with the given gain.
Chunk(len, left, gain) ==
  [offset |-> len - left, chunkEnd |-> len - left + ChunkSize(left), gain |-> gain]

\* publishPCMAudio: while (offset < volumeAdjustedPCM.length && !this.shouldStop)
\* Variant of FiniteLoop: the volume is applied to each chunk when it is sent.
FiniteLoopGainPerChunk(s, t) ==
  IF s.tasks[t].left > 0 /\ ~s.shouldStop
    THEN Put([s EXCEPT !.tasks[t].pc = "pl_frame", !.tasks[t].last = s.tasks[t].left],
             [Ev("captureFrame", t, "finite", "", "-", s.tasks[t].src)
                EXCEPT !.k = s.tasks[t].left,
                       !.arg = Chunk(s.tasks[t].len, s.tasks[t].left, s.volume)])
    ELSE PlayDone(s, t)

\* The chunk is volumeAdjustedPCM.slice(offset, chunkEnd).
FiniteLoop(s, t) ==
  IF s.tasks[t].left > 0 /\ ~s.shouldStop
    THEN Put([s EXCEPT !.tasks[t].pc = "pl_frame", !.tasks[t].last = s.tasks[t].left],
             [Ev("captureFrame", t, "finite", "", "-", s.tasks[t].src)
                EXCEPT !.k = s.tasks[t].left,
                       !.arg = Chunk(s.tasks[t].len, s.tasks[t].left, s.tasks[t].gain)])
    ELSE PlayDone(s, t)

\* publishPCMAudio up to `await publishTrack`.
PublishPCMAudio(s, t) ==
  IF s.room = 0 THEN PlayFail(s, t)
  ELSE
    LET id == s.nSources + 1
        s1 == [s EXCEPT !.srcs = @ \cup {id}, !.nSources = id, !.tasks[t].src = id,
                        !.tasks[t].gain = s.volume]
    IN IF ~HasLocalParticipant(s1, s1.room)
         THEN End(s1, t, "hang", "play")
         ELSE Put([s1 EXCEPT !.tasks[t].pc = "pl_pub", !.tasks[t].rm = s1.room],
                  Ev("publishTrack", t, "finite", "", "-", s1.room))

\* convertAudioToPCM up to the decoder's completion.
\* isNodeAVAvailable(): nodeAVProcessor.available, false while the probe is pending.
isNodeAVAvailable(s) == s.nodeAV = "loaded"

ConvertAudioToPCM(s, t) ==
  Emit([s EXCEPT !.tasks[t].pc = "pl_decode",
                 !.tasks[t].dec = IF isNodeAVAvailable(s) THEN "av" ELSE "ff"],
       t, "conversionStart", "")

\* playFromStream up to `await convertAudioToPCM`.
PlayFromStream(s, t) ==
  ConvertAudioToPCM([s EXCEPT !.shouldStop = FALSE, !.isStreaming = FALSE,
                              !.tasks[t].mode = "finite"], t)

\* playFromFile after its auto-connect.
PlayFromFileGo(s, t) ==
  ConvertAudioToPCM(
    Emit([s EXCEPT !.shouldStop = FALSE, !.isStreaming = FALSE, !.tasks[t].mode = "finite"],
         t, "audioStart", "file"), t)

\* playFromUrl after its auto-connect: the HTTP GET is sent.
PlayFromUrlGo(s, t) ==
  Put(Emit([s EXCEPT !.tasks[t].pc = "pl_http"], t, "audioStart", "url"),
      Ev("GET", t, "", "", "-", 0))

\* playStreamingAudio from `new AudioSource` to `await publishTrack`.
LivePublish(s, t) ==
  LET id == s.nSources + 1
      s1 == [s EXCEPT !.srcs = @ \cup {id}, !.nSources = id, !.tasks[t].src = id]
  IN Put([s1 EXCEPT !.tasks[t].pc = "lv_pub", !.tasks[t].rm = s1.room],
         Ev("publishTrack", t, "live", "", "-", s1.room))

\* playStreamingAudio up to its first await.
PlayStreamingAudio(s, t) ==
  LET s1 == [s EXCEPT !.shouldStop = FALSE, !.isStreaming = TRUE, !.tasks[t].mode = "live"] IN
  IF s1.room = 0 THEN PlayFail(s1, t)
  ELSE IF ~HasLocalParticipant(s1, s1.room) THEN [s1 EXCEPT !.tasks[t].pc = "lv_lp"]
  ELSE LivePublish(s1, t)

(***************************************************************************)
(* connect                                                                 *)
(***************************************************************************)

\* connect() resolves: the caller (the host, playFromFile or playFromUrl) goes on.
ConnectReturn(s, t) ==
  LET s1 == Pop(s, t)
      s2 == [Settled(s1, t, "ret", "connect", "") EXCEPT !.tasks[t].reqs = <<>>]
  IN
  IF Len(s1.tasks[t].stk) = 0 THEN End(s1, t, "ret", "connect")
  ELSE IF Top(s1, t) = "playFile" THEN PlayFromFileGo(s2, t)
  ELSE PlayFromUrlGo(s2, t)

\* connect() rejects; playFromFile and playFromUrl await it outside their try blocks.
ConnectThrow(s, t) ==
  LET s1 == Pop(s, t) IN
  IF Len(s1.tasks[t].stk) = 0 THEN End(s1, t, "throw", "connect")
  ELSE End(Settled(s1, t, "throw", "connect", s1.tasks[t].why), t, "throw", "play")

\* catch (error) of connect: emit "error", rethrow.
ConnectCatch(s, t, why) ==
  ConnectThrow(Emit([s EXCEPT !.tasks[t].why = why], t, "error", "connection"), t)

FreeRoom(s) == CHOOSE r \in RoomIds :
                 /\ s.rooms[r].st = "unused"
                 /\ \A q \in RoomIds : q < r => s.rooms[q].st # "unused"

\* A grant was obtained: new Room(), this.room = room, room.on(Disconnected), room.connect().
ConnectRoom(s, t) ==
  LET r == FreeRoom(s)
      c == s.tasks[t].ch
      s1 == [s EXCEPT !.rooms[r] = [st |-> "connecting", ch |-> c], !.room = r,
                      !.tasks[t].rm = r, !.tasks[t].pc = "co_hs"]
  IN Put(Put(s1, Ev("room.new", t, "", "", c, r)), Ev("room.connect", t, "", "", c, r))

\* Variant of IsAlreadyConnected: every failure of the first join starts the recovery.
IsAnyJoinError(res) == res # "ok"

\* The test of the first join's error: its message includes "AlreadyConnected", or its
\* response data has that type.
IsAlreadyConnected(res) == res = "AlreadyConnected"

\* The first join_call POST.
ConnectNegotiate(s, t) == Request([s EXCEPT !.tasks[t].pc = "co_post1"], t, "POST")

\* The join_call DELETE (strategy 1).
ConnectRelease(s, t) == Request([s EXCEPT !.tasks[t].pc = "co_del"], t, "DELETE")

\* The join_call POST retried after the DELETE.
ConnectRetry(s, t) == Request([s EXCEPT !.tasks[t].pc = "co_post2"], t, "POST")

\* The forced join_call POST (strategy 2).
ConnectForce(s, t) == Request([s EXCEPT !.tasks[t].pc = "co_force"], t, "FORCE")

(***************************************************************************)
(* disconnect and stop                                                     *)
(***************************************************************************)

\* disconnect() resolves; inside connect(), channelId is updated and the join starts.
DisconnectReturn(s, t, y) ==
  LET s1 == Pop(s, t) IN
  IF Len(s1.tasks[t].stk) = 0 THEN End([s1 EXCEPT !.tasks[t].why = y], t, "ret", "disconnect")
  ELSE ConnectNegotiate(
         [Settled(s1, t, "ret", "disconnect", y) EXCEPT !.channelId = s1.tasks[t].ch], t)

\* disconnect() rejects; connect() awaits it outside its try block.
DisconnectThrow(s, t, y) ==
  LET s1 == Pop(s, t) IN
  IF Len(s1.tasks[t].stk) = 0 THEN End([s1 EXCEPT !.tasks[t].why = y], t, "throw", "disconnect")
  ELSE ConnectThrow([Settled(s1, t, "throw", "disconnect", y) EXCEPT !.tasks[t].why = "disconnect"], t)

\* Variant of DisconnectCatch: the catch block forgets publications.clear().
DisconnectCatchKeepsTracks(s, t) ==
  DisconnectThrow([s EXCEPT !.isConnected = FALSE, !.srcs = {}, !.room = 0], t,
                  IF s.tasks[t].ufail THEN "unpublish-failed" ELSE "")

\* catch (error) of disconnect: still clean up, rethrow.
DisconnectCatch(s, t) ==
  DisconnectThrow([s EXCEPT !.isConnected = FALSE, !.pubs = {}, !.srcs = {}, !.room = 0], t,
                  IF s.tasks[t].ufail THEN "unpublish-failed" ELSE "")

\* disconnect after `await this.stop()`: audioSources.clear(), this.room.disconnect().
DisconnectAfterStop(s, t) ==
  LET s1 == [s EXCEPT !.srcs = {}] IN
  IF s1.room = 0 THEN DisconnectCatch(s1, t)
  ELSE Put([s1 EXCEPT !.tasks[t].pc = "dc_room", !.tasks[t].rm = s1.room],
           Ev("room.disconnect", t, "", "", "-", s1.room))

StopReturn(s, t) ==
  LET s1 == Pop(s, t) IN
  IF Len(s1.tasks[t].stk) = 0 THEN End(s1, t, "ret", "stop")
  ELSE DisconnectAfterStop(Settled(s1, t, "ret", "stop", ""), t)

Min(S) == CHOOSE x \in S : \A y \in S : x <= y

\* stop(): for (const [sid, publication] of this.publications) { try { await unpublish } ... }
\* then publications.clear().  The Map iterator is live: it visits the entries present
\* when it gets to them, in insertion order.  With this.room gone every remaining
\* iteration throws a TypeError inside its try.
StopLoop(s, t) ==
  LET rest == {x \in s.pubs : x > s.tasks[t].cur} IN
  IF s.room = 0 \/ rest = {}
    THEN StopReturn([s EXCEPT !.pubs = {}], t)
    ELSE LET sid == Min(rest)
             has == HasLocalParticipant(s, s.room)
             s1 == [s EXCEPT !.tasks[t].pc = "st_unpub", !.tasks[t].cur = sid,
                             !.tasks[t].lp = has,
                             !.tasks[t].tried = IF has THEN @ \cup {sid} ELSE @]
         IN IF has THEN Put(s1, Ev("unpublishTrack", t, "", "", "-", sid)) ELSE s1

\* stop(trackName?) up to its first await.
StopBegin(s, t, trk) ==
  LET s1 == [s EXCEPT !.shouldStop = TRUE, !.isStreaming = FALSE,
                      !.tasks = [u \in Slots |->
                        IF s.tasks[u].pc \in {"pl_decode", "pl_pub", "pl_frame", "pl_wait",
                                              "lv_lp", "lv_pub", "lv_run", "lv_run2"}
                          THEN [s.tasks[u] EXCEPT !.cancelled = TRUE] ELSE s.tasks[u]]]
  IN IF s1.room = 0 THEN StopReturn(s1, t)
     ELSE IF trk # 0
       THEN IF trk \in s1.pubs
              THEN LET has == HasLocalParticipant(s1, s1.room)
                       s2 == [s1 EXCEPT !.tasks[t].pc = "st_unpub1", !.tasks[t].trk = trk,
                                        !.tasks[t].lp = has]
                   IN IF has THEN Put(s2, Ev("unpublishTrack", t, "", "", "-", trk)) ELSE s2
              ELSE StopReturn(s1, t)
     ELSE StopLoop([s1 EXCEPT !.tasks[t].cur = 0], t)

\* disconnect() up to its first await.
DisconnectBegin(s, t) ==
  LET s1 == Push(s, t, "disconnect") IN
  IF s1.room = 0 THEN DisconnectReturn(s1, t, "no-room")
  ELSE StopBegin(Push(s1, t, "stop"), t, 0)

\* connect(targetChannelId?) up to its first await.
ConnectBegin(s, t, target) ==
  LET c == IF target = "none" THEN s.channelId ELSE target
      s1 == [Push(s, t, "connect") EXCEPT !.tasks[t].ch = c]
  IN IF s1.isConnected /\ c # s1.channelId
       THEN DisconnectBegin([s1 EXCEPT !.tasks[t].sw = TRUE], t)
     ELSE IF s1.isConnected /\ c = s1.channelId THEN ConnectReturn(s1, t)
     ELSE ConnectNegotiate(s1, t)

\* get connected()
Connected(s) == s.isConnected /\ s.room # 0

\* play(input) up to its first await; kind is the classification of the input.
PlayBegin(s, t, kind) ==
  LET s1 == Push(s, t, kind) IN
  IF kind = "playStream" THEN PlayFromStream(Emit(s1, t, "audioStart", "stream"), t)
  ELSE IF kind = "playFile"
    THEN IF ~Connected(s1) THEN ConnectBegin(s1, t, "none") ELSE PlayFromFileGo(s1, t)
  ELSE IF kind = "playUrl"
    THEN IF ~Connected(s1) THEN ConnectBegin(s1, t, "none") ELSE PlayFromUrlGo(s1, t)
  ELSE End(s1, t, "throw", "play")

\* handleDisconnected()
HandleDisconnected(s) ==
  EmitDisconnected([s EXCEPT !.srcs = {}, !.isConnected = FALSE, !.pubs = {}, !.room = 0],
                   0, "unexpected")

(***************************************************************************)
(* Volume: setVolume, increaseVolume, decreaseVolume, mute, unmute,        *)
(* applyVolume                                                             *)
(***************************************************************************)

\* A JavaScript number: a multiple q of 1/4, or NaN.
Num(q) == [nan |-> FALSE, q |-> q]
NaN == [nan |-> TRUE, q |-> 0]

\* Math.min, Math.max, + and -: NaN if an operand is NaN.
MathMin(a, b) == IF a.nan \/ b.nan THEN NaN ELSE IF a.q <= b.q THEN a ELSE b
MathMax(a, b) == IF a.nan \/ b.nan THEN NaN ELSE IF a.q >= b.q THEN a ELSE b
Plus(a, b) == IF a.nan \/ b.nan THEN NaN ELSE Num(a.q + b.q)
Minus(a, b) == IF a.nan \/ b.nan THEN NaN ELSE Num(a.q - b.q)

\* setVolume stores Math.max(0.0, Math.min(2.0, level)).
Clamped(level) == MathMax(Num(0), MathMin(Num(8), level))

Int16Max == 32767
Int16Min == -32768

\* Storing x into an Int16Array element: x modulo 2^16, as a signed 16-bit integer.
ToInt16(x) == ((x + 32768) % 65536) - 32768

\* Math.round of n/4: the nearest integer, a half rounded towards +Infinity.
MathRound(n) == (n + 2) \div 4

\* One sample of applyVolume at volume v: the product is clamped and stored; with v NaN
\* the product is NaN, and an Int16Array stores NaN as 0.
Scaled(sample, v) ==
  IF v.nan THEN 0
  ELSE LET r == MathRound(sample * v.q)
       IN ToInt16(IF r > Int16Max THEN Int16Max ELSE IF r < Int16Min THEN Int16Min ELSE r)

\* Variant of ApplyVolumeTo: the product is stored without the clamp.
ApplyVolumeUnclamped(pcm, v) ==
  IF v = Num(4) THEN pcm
  ELSE [i \in 1 .. Len(pcm) |-> IF v.nan THEN 0 ELSE ToInt16(MathRound(pcm[i] * v.q))]

\* applyVolume(pcmData) at volume v: the input itself at 1.0, else a new array.
ApplyVolumeTo(pcm, v) ==
  IF v = Num(4) THEN pcm
  ELSE [i \in 1 .. Len(pcm) |-> Scaled(pcm[i], v)]

(***************************************************************************)
(* Initial state and the host's calls                                      *)
(***************************************************************************)

\* new RateLimitQueue(): bucketMap and pathToBucket are empty.  known: pathToBucket has
\* the path; passed: Date.now() >= resetAfter; timer: resetTimeout is armed.
NoBucket ==
  [known |-> FALSE, limit |-> 0, remaining |-> 0, passed |-> FALSE, timer |-> FALSE,
   queue |-> <<>>]

\* st: "none" (not called), "queued", "sent" (axios called), "resolved", "rejected",
\* "lost" (the promise can no longer settle); queued: the request went through the queue.
NoRequest == [st |-> "none", queued |-> FALSE]

\* new AudioPlayer("c1", serverId, client); the channel names are interchangeable.
InitPlayer ==
  /\ channelId = "c1"
  /\ room = 0
  /\ rooms = [r \in RoomIds |-> [st |-> "unused", ch |-> "-"]]
  /\ publications = {}
  /\ audioSources = {}
  /\ isConnected = FALSE
  /\ shouldStop = FALSE
  /\ isStreaming = FALSE
  /\ onceDisconnected = FALSE
  /\ tasks = [t \in Slots |-> IdleTask]
  /\ nSources = 0
  /\ nCalls = 0
  /\ volume = Num(4)
  /\ players = [srv \in Servers |-> 0]
  /\ nPlayers = 0
  /\ vtasks = [v \in Slots |-> [pc |-> "idle", srv |-> "-", player |-> 0]]
  /\ bucketMap = NoBucket
  /\ requests = [id \in RequestIds |-> NoRequest]
  /\ out = <<>>

\* A player constructed after the capability probe of the module has settled; the host
\* listens to its "error" notifications.
Init == InitPlayer /\ nodeAV \in {"loaded", "missing"} /\ errorListener = TRUE

\* A player constructed while the capability probe is pending.
InitProbing == InitPlayer /\ nodeAV = "probing" /\ errorListener = TRUE

\* A player whose host listens to "error" or does not.
InitAnyHost == InitPlayer /\ nodeAV \in {"loaded", "missing"} /\ errorListener \in BOOLEAN

\* The host uses the lowest free slot for a new call.
FreeSlot(t) ==
  /\ tasks[t].pc = "idle"
  /\ \A u \in Slots : u < t => tasks[u].pc # "idle"
  /\ nCalls < MaxCalls

UsedRooms == {r \in RoomIds : rooms[r].st # "unused"}

\* Tasks that may still create a Room / an audio source.
MayConnect(k) == k.pc \notin {"idle", "co_hs"} /\ \E i \in 1 .. Len(k.stk) : k.stk[i] = "connect"
MayPublish(k) == k.pc # "idle" /\ k.src = 0 /\ k.stk[1] \in PlayKinds

RoomBudget == Cardinality(UsedRooms) + Cardinality({u \in Slots : MayConnect(tasks[u])}) < MaxRooms
SourceBudget == nSources + Cardinality({u \in Slots : MayPublish(tasks[u])}) < MaxTracks

Called(t, fn, arg, n) == Put(Cur, Ev("call", t, fn, arg, "-", n))

CallConnect(t, target) ==
  /\ FreeSlot(t)
  /\ RoomBudget
  /\ nCalls' = nCalls + 1
  /\ Commit(ConnectBegin(Called(t, "connect", target, 0), t, target))

CallDisconnect(t) ==
  /\ FreeSlot(t)
  /\ nCalls' = nCalls + 1
  /\ Commit(DisconnectBegin(Called(t, "disconnect", "", 0), t))

CallStop(t, trk) ==
  /\ FreeSlot(t)
  /\ nCalls' = nCalls + 1
  /\ Commit(StopBegin(Push(Called(t, "stop", "", trk), t, "stop"), t, trk))

\* An argument of play(input): a Readable or not, a string or not; a string parses as an
\* absolute URL with some scheme or as none, and names an existing file or does not.
Schemes == {"none", "http:", "https:", "ftp:"}
StreamInput ==
  [stream |-> TRUE, str |-> FALSE, scheme |-> "none", exists |-> FALSE, hint |-> "none"]
OtherInput ==
  [stream |-> FALSE, str |-> FALSE, scheme |-> "none", exists |-> FALSE, hint |-> "none"]
StringInput(scheme, exists) ==
  [stream |-> FALSE, str |-> TRUE, scheme |-> scheme, exists |-> exists, hint |-> "none"]

\* An https URL that names no file and contains the given hint.
UrlInput(hint) == [StringInput("https:", FALSE) EXCEPT !.hint = hint]
Inputs ==
  {StreamInput, OtherInput} \cup {StringInput(sc, e) : sc \in Schemes, e \in BOOLEAN}

isStream(input) == input.stream
isUrl(input) == input.scheme \in {"http:", "https:"}
isFilePath(input) == input.exists

\* Variant of Classify: a string that names an existing file is a file, URL or not.
ClassifyFileFirst(input) ==
  IF isStream(input) THEN "playStream"
  ELSE IF input.str
    THEN IF isFilePath(input) THEN "playFile"
         ELSE IF isUrl(input) THEN "playUrl"
         ELSE "invalid"
  ELSE "invalid"

\* The branch play(input) takes.
Classify(input) ==
  IF isStream(input) THEN "playStream"
  ELSE IF input.str
    THEN IF isUrl(input) THEN "playUrl"
         ELSE IF isFilePath(input) THEN "playFile"
         ELSE "invalid"
  ELSE "invalid"

CallPlay(t, input) ==
  LET kind == Classify(input) IN
  /\ FreeSlot(t)
  /\ kind \in PlayKinds => SourceBudget
  /\ kind \in {"playFile", "playUrl"} => RoomBudget
  /\ nCalls' = nCalls + 1
  /\ Commit(PlayBegin([Called(t, "play", "", 0) EXCEPT !.out[1].arg = input,
                                                      !.tasks[t].url = input.hint], t, kind))

(***************************************************************************)
(* Completions of the awaited calls                                        *)
(***************************************************************************)

\* Variant of JoinResponse: a failed forced join is retried instead of being fatal.
JoinResponseRetriesForce(t, res) ==
  LET k == tasks[t]
      s == Answered(Cur, t, res)
  IN
  /\ k.pc \in {"co_post1", "co_post2", "co_force"}
  /\ res = "ok" => \E r \in RoomIds : rooms[r].st = "unused"
  /\ UNCHANGED nCalls
  /\ Commit(
       IF res = "ok" THEN ConnectRoom(s, t)
       ELSE IF k.pc = "co_post1" THEN
         IF res = "AlreadyConnected" THEN ConnectRelease(s, t)
         ELSE ConnectCatch(s, t, "join-error")
       ELSE IF k.pc = "co_post2" \/ Len(k.reqs) < 5 THEN ConnectForce(s, t)
       ELSE ConnectCatch(s, t, "conflict"))

\* A join_call POST is answered.
JoinResponse(t, res) ==
  LET k == tasks[t]
      s == Answered(Cur, t, res)
  IN
  /\ k.pc \in {"co_post1", "co_post2", "co_force"}
  /\ res = "ok" => \E r \in RoomIds : rooms[r].st = "unused"
  /\ UNCHANGED nCalls
  /\ Commit(
       IF res = "ok" THEN ConnectRoom(s, t)
       ELSE IF k.pc = "co_post1" THEN
         IF IsAlreadyConnected(res) THEN ConnectRelease(s, t)
         ELSE ConnectCatch(s, t, "join-error")
       ELSE IF k.pc = "co_post2" THEN ConnectForce(s, t)
       ELSE ConnectCatch(s, t, "conflict"))

\* Variant of ReleaseResponse: the join after a successful DELETE carries the force flag.
ReleaseResponseForced(t, ok) ==
  LET s == Answered(Cur, t, IF ok THEN "ok" ELSE "error") IN
  /\ tasks[t].pc = "co_del"
  /\ UNCHANGED nCalls
  /\ Commit(ConnectForce(s, t))

\* The join_call DELETE is answered.
ReleaseResponse(t, ok) ==
  LET s == Answered(Cur, t, IF ok THEN "ok" ELSE "error") IN
  /\ tasks[t].pc = "co_del"
  /\ UNCHANGED nCalls
  /\ Commit(IF ok THEN ConnectRetry(s, t) ELSE ConnectForce(s, t))

\* room.connect() settles.
HandshakeDone(t, ok) ==
  LET k == tasks[t] IN
  /\ k.pc = "co_hs"
  /\ ok => rooms[k.rm].st = "connecting"
  /\ UNCHANGED nCalls
  /\ Commit(IF ok
              THEN ConnectReturn(
                     Put([Cur EXCEPT !.rooms[k.rm].st = "connected", !.isConnected = TRUE],
                         Ev("emit", t, "connected", "", k.ch, k.rm)), t)
              ELSE ConnectCatch(
                     [Cur EXCEPT !.rooms[k.rm].st = IF @ = "connecting" THEN "closed" ELSE @],
                     t, "handshake"))

\* localParticipant.unpublishTrack() settles (or the await of `undefined` when the
\* room has no local participant).
UnpublishDone(t, ok) ==
  LET k == tasks[t] IN
  /\ k.pc \in {"st_unpub", "st_unpub1"}
  /\ ~k.lp => ok
  /\ UNCHANGED nCalls
  /\ Commit(IF k.pc = "st_unpub"
              THEN StopLoop(IF ok THEN Put(Cur, Ev("emit", t, "trackStopped", "", "-", k.cur))
                                  ELSE [Cur EXCEPT !.tasks[t].ufail = TRUE], t)
              ELSE StopReturn(IF ok THEN Put([Cur EXCEPT !.pubs = @ \ {k.trk}],
                                             Ev("emit", t, "trackStopped", "", "-", k.trk))
                                    ELSE [Cur EXCEPT !.tasks[t].ufail = TRUE], t))

\* room.disconnect() settles.  On a Room that is still connecting the transport either
\* aborts the handshake or ignores the call (keep).
RoomDisconnectDone(t, ok, keep) ==
  LET k == tasks[t]
      st == rooms[k.rm].st
  IN
  /\ k.pc = "dc_room"
  /\ keep => (ok /\ st = "connecting")
  /\ UNCHANGED nCalls
  /\ Commit(IF ok
              THEN DisconnectReturn(
                     EmitDisconnected(
                       [Cur EXCEPT !.rooms[k.rm].st =
                                      IF st = "connected" THEN "released"
                                      ELSE IF st = "connecting" /\ ~keep THEN "closed" ELSE st,
                                   !.isConnected = FALSE, !.pubs = {}, !.room = 0],
                       t, "manual"), t, IF k.ufail THEN "unpublish-failed" ELSE "")
              ELSE DisconnectCatch(Cur, t))

\* The transport of Room r fires RoomEvent.Disconnected; the handler was bound at line 291.
RoomDisconnected(r) ==
  /\ rooms[r].st \in {"connected", "released"}
  /\ UNCHANGED nCalls
  /\ Commit(HandleDisconnected(
       Put([Cur EXCEPT !.rooms[r].st = "closed"], Ev("Disconnected", 0, "", "", rooms[r].ch, r))))

\* What a URL contains of the words the heuristic looks for: nothing, the word in lower
\* case, or the word in another case (found only after toLowerCase).
UrlHints == {"none", "stream", "Stream", "radio", "Radio"}

\* The answers to the HTTP GET: the status (200, another one, or a request error or
\* timeout), whether a content-length header is present, and the content type.
ContentTypes == {"audio/mpeg", "application/ogg", "audio/wav"}
Responses == [status : {"200", "404", "error"}, cl : BOOLEAN, ctype : ContentTypes]
Response(status, cl, ctype) == [status |-> status, cl |-> cl, ctype |-> ctype]

\* Variant of isLiveStream: only a response without content-length is live.
isLiveStreamByLength(url, response) == ~response.cl

\* isLiveStream in playFromUrl's response callback, for a URL with the given hint.
isLiveStream(url, response) ==
  \/ ~response.cl
  \/ response.ctype = "audio/mpeg" /\ url = "stream"
  \/ response.ctype = "application/ogg"
  \/ url \in {"radio", "Radio"}
  \/ url \in {"stream", "Stream"}

\* The HTTP GET of playFromUrl is answered: a failure (status other than 200, request
\* error, timeout), or a 200 response, delivered in live or in finite mode.
HttpResponse(t, response) ==
  LET s == Put(Cur, [Ev("response", t, "", "", "-", 0)
                       EXCEPT !.arg = [url |-> tasks[t].url, response |-> response]])
  IN
  /\ tasks[t].pc = "pl_http"
  /\ UNCHANGED nCalls
  /\ Commit(IF response.status # "200"
              THEN End(Emit(s, t, "audioError", "url"), t, "hang", "play")
            ELSE IF isLiveStream(tasks[t].url, response) THEN PlayStreamingAudio(s, t)
            ELSE PlayFromStream(s, t))

\* convertAudioToPCM settles: n chunks of PCM, a rejection (node-av), or an ffmpeg
\* failure, after which the promise is never settled.
DecodeDone(t, res, n) ==
  /\ tasks[t].pc = "pl_decode"
  /\ res # "ok" => n = 0
  /\ res = "reject" => tasks[t].dec = "av"
  /\ res = "hang" => tasks[t].dec = "ff"
  /\ UNCHANGED nCalls
  /\ Commit(IF res = "ok" THEN PublishPCMAudio([Cur EXCEPT !.tasks[t].left = n, !.tasks[t].len = n], t)
            ELSE IF res = "reject" THEN PlayFail([Cur EXCEPT !.tasks[t].why = "decode"], t)
            ELSE End(Emit([Cur EXCEPT !.tasks[t].why = "decode"], t, "conversionError", ""),
                     t, "hang", "play"))

\* playStreamingAudio after its one-second wait for room.localParticipant.
LocalParticipantWait(t) ==
  /\ tasks[t].pc = "lv_lp"
  /\ UNCHANGED nCalls
  /\ Commit(IF ~HasLocalParticipant(Cur, room) THEN PlayFail(Cur, t) ELSE LivePublish(Cur, t))

\* localParticipant.publishTrack() settles: a publication, null, or an exception.
\* In live mode the decoder (node-av "av" or ffmpeg "ff") is then started on n chunks.
PublishDone(t, res, d, n) ==
  LET k == tasks[t]
      s1 == Emit([Cur EXCEPT !.pubs = @ \cup {k.src}], t, "trackPublished", "")
  IN
  /\ k.pc \in {"pl_pub", "lv_pub"}
  /\ IF k.pc = "lv_pub" /\ res = "ok"
       THEN d = (IF isNodeAVAvailable(Cur) THEN "av" ELSE "ff")
       ELSE d = "-" /\ n = 0
  /\ UNCHANGED nCalls
  /\ Commit(IF k.pc = "pl_pub"
              THEN IF res = "ok" THEN FiniteLoop(s1, t) ELSE End(Cur, t, "hang", "play")
              ELSE IF res = "ok"
                THEN [s1 EXCEPT !.tasks[t].pc = "lv_run", !.tasks[t].dec = d,
                                !.tasks[t].left = n,
                                !.tasks[t].lsn = (d = "ff"),
                                !.once = (@ \/ d = "ff")]
                ELSE PlayFail(Cur, t))

\* Variant of FrameDone: a chunk whose captureFrame failed is sent again.
FrameDoneRetries(t, ok) ==
  /\ tasks[t].pc = "pl_frame"
  /\ UNCHANGED nCalls
  /\ Commit(IF ok THEN [Cur EXCEPT !.tasks[t].pc = "pl_wait", !.tasks[t].left = @ - ChunkSize(@)]
                  ELSE [Emit(Rejected(Cur, t, "captureFrame", ""), t, "error", "frame-capture")
                          EXCEPT !.tasks[t].pc = "pl_wait"])

\* source.captureFrame() of the finite loop settles; then the pacing timer is armed.
\* A rejection is caught and emitted as "error": with no listener for "error" the emit
\* throws it out of the loop into processAudio's catch, which logs it and settles nothing.
FrameDone(t, ok) ==
  LET s == Rejected(Cur, t, "captureFrame", "") IN
  /\ tasks[t].pc = "pl_frame"
  /\ UNCHANGED nCalls
  /\ Commit(IF ok
              THEN [Cur EXCEPT !.tasks[t].pc = "pl_wait", !.tasks[t].left = @ - ChunkSize(@)]
            ELSE IF errorListener
              THEN [Emit(s, t, "error", "frame-capture")
                      EXCEPT !.tasks[t].pc = "pl_wait", !.tasks[t].left = @ - ChunkSize(@)]
            ELSE End(s, t, "hang", "play"))

\* The pacing timer of the finite loop fires.
PacingDone(t) ==
  /\ tasks[t].pc = "pl_wait"
  /\ UNCHANGED nCalls
  /\ Commit(FiniteLoop(Cur, t))

\* The live decoder delivers a chunk (onData of createAudioStream, stdout data of ffmpeg).
LiveChunk(t) ==
  LET s1 == [Cur EXCEPT !.tasks[t].left = @ - 1] IN
  /\ tasks[t].pc = "lv_run"
  /\ tasks[t].left > 0
  /\ ~tasks[t].killed
  /\ UNCHANGED nCalls
  /\ Commit(IF ~isStreaming \/ shouldStop THEN s1
            ELSE Put([s1 EXCEPT !.tasks[t].infl = @ + 1, !.tasks[t].last = tasks[t].left],
                     [Ev("captureFrame", t, "live", "", "-", tasks[t].src)
                        EXCEPT !.k = tasks[t].left]))

\* A captureFrame of a live chunk handler settles; a failure is only logged, and the
\* handler finds no further complete chunk in its buffer.
\* res: "ok", or the rejection, whose message contains "InvalidState" or does not.
LiveFrameDone(t, res) ==
  /\ tasks[t].pc \in {"lv_run", "lv_run2"}
  /\ tasks[t].infl > 0
  /\ UNCHANGED nCalls
  /\ Commit([(IF res = "ok" THEN Cur ELSE Rejected(Cur, t, "captureFrame", res))
               EXCEPT !.tasks[t].infl = @ - 1])

\* The live decoder ends (ok) or fails.  ffmpeg: "close" resolves the playback.
\* node-av: the first createAudioStream settles; on success the once-listener is
\* registered and createAudioStream is called a second time on the same input.
LiveEnd(t, ok) ==
  LET k == tasks[t]
      s1 == [Cur EXCEPT !.isStreaming = FALSE]
  IN
  /\ k.pc = "lv_run"
  /\ UNCHANGED nCalls
  /\ Commit(IF k.dec = "ff"
              THEN PlayDone(EmitEndOfSource(IF ok THEN s1
                                            ELSE Emit(s1, t, "audioError", "streaming"), t), t)
              ELSE IF ok
                THEN [EmitEndOfSource(s1, t)
                        EXCEPT !.tasks[t].pc = "lv_run2", !.tasks[t].lsn = TRUE, !.once = TRUE]
                ELSE PlayFail(Emit(s1, t, "audioError", "streaming"), t))

\* The second createAudioStream of the node-av path settles, or never does.
LiveRestartDone(t, res) ==
  LET s1 == [Cur EXCEPT !.isStreaming = FALSE] IN
  /\ tasks[t].pc = "lv_run2"
  /\ UNCHANGED nCalls
  /\ Commit(IF res = "end" THEN PlayDone(EmitEndOfSource(s1, t), t)
            ELSE IF res = "error" THEN PlayFail(Emit(s1, t, "audioError", "streaming"), t)
            ELSE End(Cur, t, "hang", "play"))

\* What the transport, the signaling endpoint and the timers do to the calls in flight.
ConnectionStep ==
  \/ \E t \in Slots, res \in {"ok", "AlreadyConnected", "error"} : JoinResponse(t, res)
  \/ \E t \in Slots, ok \in BOOLEAN : ReleaseResponse(t, ok)
  \/ \E t \in Slots, ok \in BOOLEAN : HandshakeDone(t, ok)
  \/ \E t \in Slots, ok \in BOOLEAN : UnpublishDone(t, ok)
  \/ \E t \in Slots, ok \in BOOLEAN, keep \in BOOLEAN : RoomDisconnectDone(t, ok, keep)
  \/ \E r \in RoomIds : RoomDisconnected(r)

\* Lengths of decoded buffers, in samples: whole chunks only.
WholeBuffers == {n * SamplesPerChunk : n \in 0 .. MaxChunks}

\* Lengths of decoded buffers, in samples: a number of whole chunks, and that and one
\* sample more.
Buffers == {n * SamplesPerChunk + d : n \in 0 .. MaxChunks, d \in {0, 1}}

FiniteStep ==
  \/ \E t \in Slots, res \in {"ok", "reject", "hang"}, n \in WholeBuffers : DecodeDone(t, res, n)
  \/ \E t \in Slots, res \in {"ok", "null", "throw"}, d \in {"av", "ff", "-"},
        n \in 0 .. MaxChunks : PublishDone(t, res, d, n)
  \/ \E t \in Slots, ok \in BOOLEAN : FrameDone(t, ok)
  \/ \E t \in Slots : PacingDone(t)

LiveStep ==
  \/ \E t \in Slots,
          response \in {Response("404", TRUE, "audio/mpeg"), Response("200", TRUE, "audio/mpeg"),
                        Response("200", FALSE, "audio/mpeg")} :
       HttpResponse(t, response)
  \/ \E t \in Slots : LocalParticipantWait(t)
  \/ \E t \in Slots : LiveChunk(t)
  \/ \E t \in Slots : LiveFrameDone(t, "ok")
  \/ \E t \in Slots, ok \in BOOLEAN : LiveEnd(t, ok)
  \/ \E t \in Slots, res \in {"end", "error", "hang"} : LiveRestartDone(t, res)

\* The host connects, disconnects, stops and plays streams and files (finite mode).
\* connect() without a channel is connect(channelId).
Next ==
  \/ \E t \in Slots, c \in Channels : CallConnect(t, c)
  \/ \E t \in Slots : CallDisconnect(t)
  \/ \E t \in Slots, trk \in 0 .. MaxTracks : CallStop(t, trk)
  \/ \E t \in Slots,
          input \in {StreamInput, StringInput("none", TRUE), StringInput("none", FALSE)} :
       CallPlay(t, input)
  \/ ConnectionStep
  \/ FiniteStep

Spec == Init /\ [][Next]_vars

\* ConnectionStep where the endpoint reports no AlreadyConnected conflict.
PlainConnectionStep ==
  \/ \E t \in Slots, res \in {"ok", "error"} : JoinResponse(t, res)
  \/ \E t \in Slots, ok \in BOOLEAN : HandshakeDone(t, ok)
  \/ \E t \in Slots, ok \in BOOLEAN : UnpublishDone(t, ok)
  \/ \E t \in Slots, ok \in BOOLEAN, keep \in BOOLEAN : RoomDisconnectDone(t, ok, keep)
  \/ \E r \in RoomIds : RoomDisconnected(r)

\* The host plays URLs (finite or live mode), stops and disconnects.
NextUrl ==
  \/ \E t \in Slots : CallDisconnect(t)
  \/ \E t \in Slots : CallStop(t, 0)
  \/ \E t \in Slots : CallPlay(t, StringInput("https:", FALSE))
  \/ PlainConnectionStep
  \/ FiniteStep
  \/ LiveStep

SpecUrl == Init /\ [][NextUrl]_vars

(***************************************************************************)
(* The volume controls and the gain applied to a chunk                     *)
(***************************************************************************)

MaxSamples == 2

\* Arguments of the volume controls: negative, in range, above 2.0, and NaN.
Levels == {NaN} \cup {Num(q) : q \in {0 - 40, 0 - 1, 0, 1, 2, 4, 6, 8, 9, 40}}

\* 16-bit samples, and the chunks of at most MaxSamples of them.
Samples == {Int16Min, 0 - 16385, 0 - 16384, 0 - 3, 0 - 1, 0, 1, 3, 16383, 16384, Int16Max}
Chunks == UNION {[1 .. n -> Samples] : n \in 0 .. MaxSamples}

session == <<channelId, room, rooms, publications, audioSources, isConnected, shouldStop,
             isStreaming, onceDisconnected, tasks, nSources, nCalls, nodeAV,
             players, nPlayers, vtasks, errorListener, bucketMap, requests>>

VolEv(op, x, a) == [Ev(op, 0, x, "", "-", 0) EXCEPT !.arg = a]

\* The body of setVolume(level), called at volume old: the value stored, and the event.
VolumeChanged(old, level) == VolEv("emit", "volumeChanged", <<old, Clamped(level)>>)

SetVolume(level) ==
  /\ volume' = Clamped(level)
  /\ out' = <<VolEv("call", "setVolume", level), VolumeChanged(volume, level)>>
  /\ UNCHANGED session

IncreaseVolume(amount) ==
  /\ volume' = Clamped(Plus(volume, amount))
  /\ out' = <<VolEv("call", "increaseVolume", amount),
              VolumeChanged(volume, Plus(volume, amount))>>
  /\ UNCHANGED session

DecreaseVolume(amount) ==
  /\ volume' = Clamped(Minus(volume, amount))
  /\ out' = <<VolEv("call", "decreaseVolume", amount),
              VolumeChanged(volume, Minus(volume, amount))>>
  /\ UNCHANGED session

Mute ==
  /\ volume' = Clamped(Num(0))
  /\ out' = <<VolEv("call", "mute", <<>>), VolumeChanged(volume, Num(0)),
              VolEv("emit", "muted", volume)>>
  /\ UNCHANGED session

\* unmute() acts only if the volume === 0, which NaN is not.
Unmute ==
  /\ IF volume = Num(0)
       THEN /\ volume' = Clamped(Num(4))
            /\ out' = <<VolEv("call", "unmute", <<>>), VolumeChanged(volume, Num(4)),
                        VolEv("emit", "unmuted", Num(4))>>
       ELSE /\ UNCHANGED volume
            /\ out' = <<VolEv("call", "unmute", <<>>)>>
  /\ UNCHANGED session

\* The player's applyVolume(pcmData), at the current volume.
ApplyVolume(pcm) ==
  /\ out' = <<[VolEv("call", "applyVolume", [pcm |-> pcm, v |-> volume])
                 EXCEPT !.res = ApplyVolumeTo(pcm, volume)]>>
  /\ UNCHANGED <<volume, session>>

\* NodeAVProcessor.applyVolume(pcmData, volume): rounds, then clamps.
NodeAVApplyVolume(pcm, v) ==
  /\ out' = <<[VolEv("call", "NodeAVProcessor.applyVolume", [pcm |-> pcm, v |-> v])
                 EXCEPT !.res =
                   IF v = Num(4) THEN pcm
                   ELSE [i \in 1 .. Len(pcm) |->
                           IF v.nan THEN 0
                           ELSE LET sample == MathRound(pcm[i] * v.q)
                                IN ToInt16(IF sample > Int16Max THEN Int16Max
                                           ELSE IF sample < Int16Min THEN Int16Min
                                           ELSE sample)]]>>
  /\ UNCHANGED <<volume, session>>

\* The host turns the volume controls; chunks pass through applyVolume.
NextVolume ==
  \/ \E level \in Levels : SetVolume(level)
  \/ \E amount \in Levels : IncreaseVolume(amount)
  \/ \E amount \in Levels : DecreaseVolume(amount)
  \/ Mute
  \/ Unmute
  \/ \E pcm \in Chunks : ApplyVolume(pcm)
  \/ \E pcm \in Chunks, v \in Levels : NodeAVApplyVolume(pcm, v)

\* The volume controls do not read the decoder probe: it has settled and found node-av.
InitVolume == InitPlayer /\ nodeAV = "loaded" /\ errorListener = TRUE

SpecVolume == InitVolume /\ [][NextVolume]_vars

\* What the transport does to the calls in flight: its promises settle.
TransportSettles ==
  \/ \E t \in Slots, ok \in BOOLEAN : HandshakeDone(t, ok)
  \/ \E t \in Slots, ok \in BOOLEAN, keep \in BOOLEAN : RoomDisconnectDone(t, ok, keep)

\* The host connects and disconnects.  The transport settles every call made on it; the
\* signaling endpoint answers a request or never does, and connect() sets no timer.
NextConnect ==
  \/ \E t \in Slots, c \in Channels : CallConnect(t, c)
  \/ \E t \in Slots : CallDisconnect(t)
  \/ \E t \in Slots, res \in {"ok", "AlreadyConnected", "error"} : JoinResponse(t, res)
  \/ \E t \in Slots, ok \in BOOLEAN : ReleaseResponse(t, ok)
  \/ TransportSettles
  \/ \E r \in RoomIds : RoomDisconnected(r)

SpecConnect == Init /\ [][NextConnect]_vars /\ WF_vars(TransportSettles)

(***************************************************************************)
(* VoiceClient: connectToChannel, disconnectFromChannel, stopPlayerInChannel *)
(***************************************************************************)

playerState == <<channelId, room, rooms, publications, audioSources, isConnected, shouldStop,
                 isStreaming, onceDisconnected, tasks, nSources, volume, nodeAV,
                 errorListener, bucketMap, requests>>

IdleCall == [pc |-> "idle", srv |-> "-", player |-> 0]

FreeCall(v) ==
  /\ vtasks[v].pc = "idle"
  /\ \A u \in Slots : u < v => vtasks[u].pc # "idle"
  /\ nCalls < MaxCalls

\* An event of the VoiceClient call in slot v, about server srv and player p.
VcEv(op, v, fn, srv, p) == Ev(op, v, fn, srv, "-", p)

\* connectToChannel(channelId, serverId) up to `await player.connect(channelId)`.
ConnectToChannel(v, ch, srv) ==
  LET p == IF players[srv] # 0 THEN players[srv] ELSE nPlayers + 1 IN
  /\ FreeCall(v)
  /\ players[srv] = 0 => nPlayers < MaxPlayers
  /\ nCalls' = nCalls + 1
  /\ nPlayers' = IF players[srv] # 0 THEN nPlayers ELSE p
  /\ players' = [players EXCEPT ![srv] = p]
  /\ vtasks' = [vtasks EXCEPT ![v] = [pc |-> "connect", srv |-> srv, player |-> p]]
  /\ out' = <<VcEv("call", v, "connectToChannel", srv, 0), Ev("connect", v, "", "", ch, p)>>
  /\ UNCHANGED playerState

\* player.connect(channelId) settles; connectToChannel returns the player or rejects.
PlayerConnectDone(v, ok) ==
  /\ vtasks[v].pc = "connect"
  /\ vtasks' = [vtasks EXCEPT ![v] = IdleCall]
  /\ out' = <<VcEv(IF ok THEN "ret" ELSE "throw", v, "connectToChannel", vtasks[v].srv,
                   vtasks[v].player)>>
  /\ UNCHANGED <<playerState, players, nPlayers, nCalls>>

\* disconnectFromChannel(serverId) up to `await player.disconnect()`.
DisconnectFromChannel(v, srv) ==
  /\ FreeCall(v)
  /\ nCalls' = nCalls + 1
  /\ IF players[srv] # 0
       THEN /\ vtasks' = [vtasks EXCEPT ![v] = [pc |-> "disconnect", srv |-> srv,
                                                 player |-> players[srv]]]
            /\ out' = <<VcEv("call", v, "disconnectFromChannel", srv, 0),
                        Ev("disconnect", v, "", "", "-", players[srv])>>
       ELSE /\ UNCHANGED vtasks
            /\ out' = <<VcEv("call", v, "disconnectFromChannel", srv, 0),
                        VcEv("ret", v, "disconnectFromChannel", srv, 0)>>
  /\ UNCHANGED <<playerState, players, nPlayers>>

\* player.disconnect() settles: this.players.delete(serverId) follows a success only.
PlayerDisconnectDone(v, ok) ==
  /\ vtasks[v].pc = "disconnect"
  /\ vtasks' = [vtasks EXCEPT ![v] = IdleCall]
  /\ players' = IF ok THEN [players EXCEPT ![vtasks[v].srv] = 0] ELSE players
  /\ out' = <<VcEv(IF ok THEN "ret" ELSE "throw", v, "disconnectFromChannel", vtasks[v].srv,
                   vtasks[v].player)>>
  /\ UNCHANGED <<playerState, nPlayers, nCalls>>

\* stopPlayerInChannel(serverId) up to `await player.stop()`.
StopPlayerInChannel(v, srv) ==
  /\ FreeCall(v)
  /\ nCalls' = nCalls + 1
  /\ IF players[srv] # 0
       THEN /\ vtasks' = [vtasks EXCEPT ![v] = [pc |-> "stop", srv |-> srv,
                                                 player |-> players[srv]]]
            /\ out' = <<VcEv("call", v, "stopPlayerInChannel", srv, 0),
                        Ev("stop", v, "", "", "-", players[srv])>>
       ELSE /\ UNCHANGED vtasks
            /\ out' = <<VcEv("call", v, "stopPlayerInChannel", srv, 0),
                        VcEv("ret", v, "stopPlayerInChannel", srv, 0)>>
  /\ UNCHANGED <<playerState, players, nPlayers>>

\* player.stop() resolves; it catches the failures of its unpublish calls.
PlayerStopDone(v) ==
  /\ vtasks[v].pc = "stop"
  /\ vtasks' = [vtasks EXCEPT ![v] = IdleCall]
  /\ out' = <<VcEv("ret", v, "stopPlayerInChannel", vtasks[v].srv, vtasks[v].player)>>
  /\ UNCHANGED <<playerState, players, nPlayers, nCalls>>

\* The host uses the VoiceClient; the players' connect and disconnect succeed or fail.
NextVoice ==
  \/ \E v \in Slots, ch \in Channels, srv \in Servers : ConnectToChannel(v, ch, srv)
  \/ \E v \in Slots, ok \in BOOLEAN : PlayerConnectDone(v, ok)
  \/ \E v \in Slots, srv \in Servers : DisconnectFromChannel(v, srv)
  \/ \E v \in Slots, ok \in BOOLEAN : PlayerDisconnectDone(v, ok)
  \/ \E v \in Slots, srv \in Servers : StopPlayerInChannel(v, srv)
  \/ \E v \in Slots : PlayerStopDone(v)

SpecVoice == Init /\ [][NextVoice]_vars

\* checkAvailability() settles: import("node-av") succeeded or failed.
ProbeDone(ok) ==
  /\ nodeAV = "probing"
  /\ nodeAV' = IF ok THEN "loaded" ELSE "missing"
  /\ out' = <<Ev("emit", 0, "debug", IF ok THEN "node-av loaded" ELSE "node-av missing", "-", 0)>>
  /\ UNCHANGED <<channelId, room, rooms, publications, audioSources, isConnected, shouldStop,
                 isStreaming, onceDisconnected, tasks, nSources, nCalls, volume,
                 players, nPlayers, vtasks, errorListener, bucketMap, requests>>

\* The host plays streams from the moment the module is loaded, while the capability
\* probe of the module is pending or settled.
NextProbe ==
  \/ \E ok \in BOOLEAN : ProbeDone(ok)
  \/ \E t \in Slots : CallPlay(t, StreamInput)
  \/ \E t \in Slots, res \in {"ok", "reject", "hang"}, n \in WholeBuffers : DecodeDone(t, res, n)

SpecProbe == InitProbing /\ [][NextProbe]_vars

(***************************************************************************)
(* RateLimitQueue: request, _doRequest, _updateRateLimit                   *)
(***************************************************************************)

playerAndVoice == <<channelId, room, rooms, publications, audioSources, isConnected,
                    shouldStop, isStreaming, onceDisconnected, tasks, nSources, nCalls,
                    volume, nodeAV, players, nPlayers, vtasks, errorListener>>

\* An event of the request with the given id.
RlEv(op, id, x) == Ev(op, id, x, "", "-", 0)

\* request(config) for the one path: queued when its bucket is known and exhausted and
\* the reset time has not passed, else handed to _doRequest, which calls axios.
RequestCall(id) ==
  /\ requests[id].st = "none"
  /\ \A j \in RequestIds : j < id => requests[j].st # "none"
  /\ IF bucketMap.known /\ bucketMap.remaining <= 0 /\ ~bucketMap.passed
       THEN /\ bucketMap' = [bucketMap EXCEPT !.queue = Append(@, id)]
            /\ requests' = [requests EXCEPT ![id] = [st |-> "queued", queued |-> TRUE]]
            /\ out' = <<RlEv("call", id, "request")>>
       ELSE /\ UNCHANGED bucketMap
            /\ requests' = [requests EXCEPT ![id] = [st |-> "sent", queued |-> FALSE]]
            /\ out' = <<RlEv("call", id, "request"), RlEv("axios", id, "")>>
  /\ UNCHANGED playerAndVoice

\* _updateRateLimit(path, response) for a response with the bucket header: the state is
\* overwritten with the headers; with remaining <= 0 the reset timer is armed anew.
UpdateRateLimit(b, limit, remaining) ==
  [b EXCEPT !.known = TRUE, !.limit = limit, !.remaining = remaining, !.passed = FALSE,
            !.timer = (@ \/ remaining <= 0)]

\* axios(config) of _doRequest settles.  A response may carry the rate limit headers
\* (hasBucket); a failure skips _updateRateLimit.  A request made directly settles the
\* caller's promise either way; the closure of a queued request resolves it on success
\* and only logs a failure.
AxiosSettles(id, ok, hasBucket, limit, remaining) ==
  /\ requests[id].st = "sent"
  /\ remaining <= limit
  /\ (~ok \/ ~hasBucket) => (limit = 1 /\ remaining = 0)
  /\ bucketMap' = IF ok /\ hasBucket THEN UpdateRateLimit(bucketMap, limit, remaining)
                                     ELSE bucketMap
  /\ requests' = [requests EXCEPT ![id].st =
                    IF ok THEN "resolved"
                    ELSE IF requests[id].queued THEN "lost" ELSE "rejected"]
  /\ out' = <<RlEv("settles", id, IF ok THEN "response" ELSE "error")>>
  /\ UNCHANGED playerAndVoice

\* The closures the reset timer takes off the queue: while (queue.length > 0 &&
\* remaining > 0) { fn = queue.shift(); remaining--; fn() }.
RECURSIVE Drain(_)
Drain(b) ==
  IF Len(b.queue) > 0 /\ b.remaining > 0
    THEN Drain([b EXCEPT !.queue = Tail(@), !.remaining = @ - 1])
    ELSE b

\* The callback of resetTimeout runs: remaining = limit, and the queue is processed.
\* Each closure taken off the queue calls _doRequest, which calls axios.
ResetTimeout ==
  LET b0 == [bucketMap EXCEPT !.remaining = bucketMap.limit, !.timer = FALSE]
      b1 == Drain(b0)
      n == Len(b0.queue) - Len(b1.queue)
      sent == {b0.queue[i] : i \in 1 .. n}
  IN
  /\ bucketMap.timer
  /\ bucketMap' = b1
  /\ requests' = [id \in RequestIds |->
                    IF id \in sent THEN [requests[id] EXCEPT !.st = "sent"] ELSE requests[id]]
  /\ out' = <<RlEv("timeout", 0, "")>> \o [i \in 1 .. n |-> RlEv("axios", b0.queue[i], "")]
  /\ UNCHANGED playerAndVoice

\* Time passes resetAfter.  The timer is armed for parseInt(reset-after) milliseconds and
\* resetAfter is reset-after seconds away, so the timer has run by then.
ResetTimePasses ==
  /\ bucketMap.known /\ ~bucketMap.passed /\ ~bucketMap.timer
  /\ bucketMap' = [bucketMap EXCEPT !.passed = TRUE]
  /\ out' = <<RlEv("time", 0, "resetAfter")>>
  /\ UNCHANGED <<requests, playerAndVoice>>

\* What axios, the timer and the clock do.
QueueSettles ==
  \/ \E id \in RequestIds, ok \in BOOLEAN, hasBucket \in BOOLEAN,
          limit \in 1 .. MaxLimit, remaining \in 0 .. MaxLimit :
       AxiosSettles(id, ok, hasBucket, limit, remaining)
  \/ ResetTimeout
  \/ ResetTimePasses

\* The callers send requests for one path; every pending call, timer and deadline
\* comes to its end.
NextQueue ==
  \/ \E id \in RequestIds : RequestCall(id)
  \/ QueueSettles

SpecQueue == Init /\ [][NextQueue]_vars /\ WF_vars(QueueSettles)

\* The host plays files of every length and turns the volume controls meanwhile.
NextChunks ==
  \/ \E t \in Slots : CallPlay(t, StringInput("none", TRUE))
  \/ \E t \in Slots : CallStop(t, 0)
  \/ \E t \in Slots : UnpublishDone(t, TRUE)
  \/ \E t \in Slots : JoinResponse(t, "ok")
  \/ \E t \in Slots : HandshakeDone(t, TRUE)
  \/ \E t \in Slots, n \in Buffers : DecodeDone(t, "ok", n)
  \/ \E t \in Slots : PublishDone(t, "ok", "-", 0)
  \/ \E t \in Slots : FrameDone(t, TRUE)
  \/ \E t \in Slots : PacingDone(t)
  \/ SetVolume(Num(2))
  \/ Mute

SpecChunks == Init /\ [][NextChunks]_vars

\* The host plays URLs in finite and in live mode and stops; captureFrame fails at will.
NextFrameError ==
  \/ \E t \in Slots : CallPlay(t, StringInput("https:", FALSE))
  \/ \E t \in Slots : CallStop(t, 0)
  \/ \E t \in Slots : UnpublishDone(t, TRUE)
  \/ \E t \in Slots : JoinResponse(t, "ok")
  \/ \E t \in Slots : HandshakeDone(t, TRUE)
  \/ \E t \in Slots, cl \in BOOLEAN : HttpResponse(t, Response("200", cl, "audio/mpeg"))
  \/ \E t \in Slots, n \in WholeBuffers : DecodeDone(t, "ok", n)
  \/ \E t \in Slots, d \in {"av", "ff", "-"}, n \in 0 .. MaxChunks : PublishDone(t, "ok", d, n)
  \/ \E t \in Slots, ok \in BOOLEAN : FrameDone(t, ok)
  \/ \E t \in Slots : PacingDone(t)
  \/ \E t \in Slots : LiveChunk(t)
  \/ \E t \in Slots, res \in {"ok", "InvalidState", "error"} : LiveFrameDone(t, res)
  \/ \E t \in Slots : LiveEnd(t, TRUE)
  \/ \E t \in Slots : LiveRestartDone(t, "end")

SpecFrameError == InitAnyHost /\ [][NextFrameError]_vars

\* What the endpoint, the transport, the HTTP server, the decoders and the timers do to
\* a playback.
PlaybackSettles ==
  \/ \E t \in Slots, res \in {"ok", "error"} : JoinResponse(t, res)
  \/ \E t \in Slots, ok \in BOOLEAN : HandshakeDone(t, ok)
  \/ FiniteStep
  \/ LiveStep

\* The host plays streams, files and URLs, possibly while an earlier play() is still
\* connecting or playing.  Every pending answer of the environment arrives.
NextPlayback ==
  \/ \E t \in Slots, input \in {StreamInput, StringInput("none", TRUE), StringInput("https:", FALSE)} :
       CallPlay(t, input)
  \/ PlaybackSettles

SpecPlayback == Init /\ [][NextPlayback]_vars /\ WF_vars(PlaybackSettles)

\* The host plays inputs of every kind, on a session that is connected or not.
NextInput ==
  \/ \E t \in Slots, input \in Inputs : CallPlay(t, input)
  \/ \E t \in Slots, res \in {"ok", "error"} : JoinResponse(t, res)
  \/ \E t \in Slots, ok \in BOOLEAN : HandshakeDone(t, ok)

SpecInput == Init /\ [][NextInput]_vars

\* The host plays URLs of every naming, and the server answers in every way.
NextUrlMode ==
  \/ \E t \in Slots, hint \in UrlHints : CallPlay(t, UrlInput(hint))
  \/ \E t \in Slots, res \in {"ok", "error"} : JoinResponse(t, res)
  \/ \E t \in Slots, ok \in BOOLEAN : HandshakeDone(t, ok)
  \/ \E t \in Slots, response \in Responses : HttpResponse(t, response)

SpecUrlMode == Init /\ [][NextUrlMode]_vars

(***************************************************************************)
(* NodeAVProcessor.convertFrameToTargetFormat                              *)
(***************************************************************************)

\* Decoded frames at the target sample rate: 1 or 2 interleaved channels of samples with
\* 16-bit integer values; a 2-channel frame holds a whole number of sample pairs.
Frames ==
  {f \in [channels : {1, 2}, data : Chunks] : f.channels = 2 => Len(f.data) % 2 = 0}

\* The channel conversion; the values are counted in halves, since an average of two
\* integers is a multiple of 1/2.
ChannelsConverted(frame, targetChannels) ==
  IF frame.channels = 2 /\ targetChannels = 1
    THEN [i \in 1 .. (Len(frame.data) \div 2) |-> frame.data[2 * i - 1] + frame.data[2 * i]]
  ELSE IF frame.channels = 1 /\ targetChannels = 2
    THEN [i \in 1 .. (2 * Len(frame.data)) |-> 2 * frame.data[(i + 1) \div 2]]
  ELSE [i \in 1 .. Len(frame.data) |-> 2 * frame.data[i]]

\* "Convert to 16-bit integers" for a sample of h halves:
\* Math.round(Math.max(-1, Math.min(1, sample)) * 32767).
ToSixteenBit(h) ==
  IF h >= 2 THEN Int16Max
  ELSE IF h <= 0 - 2 THEN 0 - Int16Max
  ELSE (h * Int16Max + 1) \div 2

\* convertFrameToTargetFormat(frame, targetSampleRate, targetChannels) for a frame at the
\* target sample rate.
ConvertFrame(frame, targetChannels) ==
  /\ out' = <<[VolEv("call", "convertFrameToTargetFormat",
                     [frame |-> frame, targetChannels |-> targetChannels])
                 EXCEPT !.res = LET samples == ChannelsConverted(frame, targetChannels)
                                IN [i \in 1 .. Len(samples) |-> ToSixteenBit(samples[i])]]>>
  /\ UNCHANGED <<volume, session>>

NextFrame == \E frame \in Frames, targetChannels \in {1, 2} : ConvertFrame(frame, targetChannels)

SpecFrame == Init /\ [][NextFrame]_vars

TypeOK ==
  /\ channelId \in Channels
  /\ room \in 0 .. MaxRooms
  /\ publications \subseteq 1 .. MaxTracks
  /\ audioSources \subseteq 1 .. MaxTracks
  /\ nSources \in 0 .. MaxTracks
  /\ nCalls \in 0 .. MaxCalls
  /\ \A r \in RoomIds : rooms[r].st \in {"unused", "connecting", "connected", "released", "closed"}
  /\ volume \in {NaN} \cup {Num(q) : q \in 0 .. 8}
  /\ nodeAV \in {"probing", "loaded", "missing"}
  /\ players \in [Servers -> 0 .. MaxPlayers]
  /\ nPlayers \in 0 .. MaxPlayers
  /\ errorListener \in BOOLEAN
  /\ bucketMap.remaining \in 0 .. MaxLimit
  /\ \A id \in RequestIds :
       requests[id].st \in {"none", "queued", "sent", "resolved", "rejected", "lost"}

(***************************************************************************)
(* Properties                                                              *)
(***************************************************************************)

IsEmit(e, name) == e.op = "emit" /\ e.x = name
IsCall(o, fn, arg) == Len(o) > 0 /\ o[1].op = "call" /\ o[1].x = fn /\ o[1].y = arg
Settles(e, fn) == e.op \in {"ret", "throw"} /\ e.x = fn

\* The session is connected, and its transport was negotiated for channel c.
ConnectedTo(c) ==
  isConnected /\ room # 0 /\ rooms[room].st = "connected" /\ rooms[room].ch = c

\* C1: a connect(c) while the session is connected to c is a no-op: no join_call
\* request, no new transport, no notification, the session state unchanged -- however
\* the connected state was reached.
C1_SameChannelConnectIsNoOp ==
  [][\A c \in Channels :
       (ConnectedTo(c) /\ IsCall(out', "connect", c))
         => /\ UNCHANGED <<channelId, room, rooms, publications, audioSources,
                           isConnected, shouldStop, isStreaming>>
            /\ \A i \in DOMAIN out' : out'[i].op \in {"call", "ret"}]_vars

\* C2: a connect(c2) while the session is connected to c1 # c2 starts a disconnect of
\* c1; the first join request for c2 is sent only when the tracks are unpublished, the
\* c1 transport released and the state reset; and when c2's handshake succeeds no
\* other transport is still connected.
C2_OtherChannelReconnects ==
  [][/\ \A c1, c2 \in Channels :
          (c1 # c2 /\ ConnectedTo(c1) /\ IsCall(out', "connect", c2))
            => tasks'[out'[1].t].pc \in {"st_unpub", "dc_room"}
     /\ \A t \in Slots :
          (tasks[t].pc = "dc_room" /\ tasks[t].stk[1] = "connect")
            => /\ (\E i \in DOMAIN out' : out'[i].op = "POST" /\ out'[i].t = t)
                    => /\ publications' = {} /\ audioSources' = {}
                       /\ room' = 0 /\ ~isConnected'
                       /\ rooms'[tasks[t].rm].st # "connected"
     /\ \A t \in Slots :
          (tasks[t].pc = "co_hs" /\ tasks[t].sw
             /\ \E i \in DOMAIN out' : IsEmit(out'[i], "connected") /\ out'[i].t = t)
            => /\ room' = tasks[t].rm
               /\ \A r \in RoomIds : r # tasks[t].rm => rooms'[r].st # "connected"]_vars

ReleaseRetry(q) ==
  /\ Len(q) >= 3
  /\ q[1] = [m |-> "POST", r |-> "AlreadyConnected"]
  /\ q[2] = [m |-> "DELETE", r |-> "ok"]
  /\ q[3].r = "ok"
NoForce(q) == \A i \in DOMAIN q : q[i].m # "FORCE"

\* C3: when the first join fails with AlreadyConnected and the DELETE and the retried
\* join succeed, that connect() sends no forced join, goes on to the handshake, and
\* when it returns the session is connected and "connected" was emitted.
C3_ReleaseRetryConnects ==
  /\ \A t \in Slots :
       ReleaseRetry(tasks[t].reqs) => NoForce(tasks[t].reqs) /\ tasks[t].pc = "co_hs"
  /\ \A i \in DOMAIN out :
       (Settles(out[i], "connect") /\ ReleaseRetry(out[i].q))
         => /\ NoForce(out[i].q)
            /\ out[i].op = "ret"
                 => /\ isConnected
                    /\ \E j \in 1 .. i : IsEmit(out[j], "connected") /\ out[j].ch = out[i].ch

C3_Witness ==
  \E i \in DOMAIN out :
    out[i].op = "ret" /\ out[i].x = "connect" /\ ReleaseRetry(out[i].q) /\ isConnected

\* The requests of one connect(): at most three joins, at most one of them forced and
\* that one the last, at most one DELETE; a forced join that failed is not followed up.
Recovery(q) ==
  /\ Cardinality({i \in DOMAIN q : q[i].m \in {"POST", "FORCE"}}) <= 3
  /\ Cardinality({i \in DOMAIN q : q[i].m = "DELETE"}) <= 1
  /\ \A i \in DOMAIN q : q[i].m = "FORCE" => i = Len(q)
Exhausted(q) ==
  /\ Len(q) >= 3
  /\ q[1] = [m |-> "POST", r |-> "AlreadyConnected"]
  /\ q[Len(q)].m = "FORCE" /\ q[Len(q)].r \in {"AlreadyConnected", "error"}

\* C4: when the first join fails with AlreadyConnected and both recoveries fail,
\* connect() rejects in that very step with the conflict error after emitting "error",
\* emits no "connected", sends nothing more, and leaves the connection state as it was.
C4_ConflictIsFatal ==
  [][/\ \A t \in Slots : Recovery(tasks'[t].reqs) /\ ~Exhausted(tasks'[t].reqs)
     /\ \A i \in DOMAIN out' :
          Exhausted(out'[i].q) => out'[i].op = "throw" /\ out'[i].y = "conflict"
     /\ \A i \in DOMAIN out' :
          (out'[i].op = "throw" /\ out'[i].x = "connect" /\ out'[i].y = "conflict")
            => /\ Exhausted(out'[i].q) /\ Recovery(out'[i].q)
               /\ \E j \in 1 .. i : IsEmit(out'[j], "error")
               /\ \A j \in DOMAIN out' :
                    /\ ~IsEmit(out'[j], "connected")
                    /\ out'[j].op \notin {"POST", "DELETE", "FORCE", "room.new", "room.connect"}
               /\ UNCHANGED <<isConnected, room, rooms>>]_vars

C4_Witness ==
  \E i \in DOMAIN out :
    /\ out[i].op = "throw" /\ out[i].x = "connect" /\ out[i].y = "conflict"
    /\ Len(out[i].q) = 4
    /\ ~isConnected

\* C5: "connected" is emitted only when the handshake of its Room has succeeded, and
\* at that moment the session is connected.
C5_ConnectedAfterHandshake ==
  \A i \in DOMAIN out :
    IsEmit(out[i], "connected")
      => rooms[out[i].n].st = "connected" /\ isConnected /\ room # 0

\* C6: publishTrack and captureFrame are called only while the session is connected.
C6_DeliveryOnlyWhenConnected ==
  \A i \in DOMAIN out :
    out[i].op \in {"publishTrack", "captureFrame"} => isConnected /\ room # 0

\* C7: a playback during which stop() was called starts no further captureFrame.
C7_NoFrameAfterStop ==
  \A i \in DOMAIN out : out[i].op = "captureFrame" => ~tasks[out[i].t].cancelled

\* C8: when a disconnect() that found a transport returns or throws, no track is
\* recorded, the session is not connected and holds no transport.
C8_DisconnectEmptiesTracks ==
  \A i \in DOMAIN out :
    (Settles(out[i], "disconnect") /\ out[i].y # "no-room")
      => publications = {} /\ ~isConnected /\ room = 0

C8_Witness ==
  \E i \in DOMAIN out :
    /\ Settles(out[i], "disconnect") /\ out[i].y = "unpublish-failed"
    /\ publications = {}

\* C9: a session that holds no transport has no track recorded.
C9_NoTracksWithoutTransport == room = 0 => publications = {}

\* A delivery loop that will go on handing frames to the transport.
Delivering(t) ==
  \/ tasks[t].pc = "pl_frame" /\ tasks[t].left > SamplesPerChunk /\ ~shouldStop
  \/ tasks[t].pc = "pl_wait" /\ tasks[t].left > 0 /\ ~shouldStop
  \/ tasks[t].pc = "lv_run" /\ tasks[t].left > 0 /\ ~tasks[t].killed
       /\ isStreaming /\ ~shouldStop

\* C10: when "disconnected" is emitted with reason unexpected, the session is not
\* connected, holds no transport, no track and no audio source, and no delivery goes on.
C10_UnexpectedDisconnectCleansUp ==
  \A i \in DOMAIN out :
    (IsEmit(out[i], "disconnected") /\ out[i].y = "unexpected")
      => /\ ~isConnected /\ room = 0
         /\ publications = {} /\ audioSources = {}
         /\ \A t \in Slots : ~Delivering(t)

\* C11: when connect() rejects because the negotiation or the handshake failed, "error"
\* was emitted, "connected" was not, the session is not connected and holds no transport.
C11_FailedConnectReturnsToIdle ==
  \A i \in DOMAIN out :
    (out[i].op = "throw" /\ out[i].x = "connect"
       /\ out[i].y \in {"join-error", "conflict", "handshake"})
      => /\ \E j \in 1 .. i : IsEmit(out[j], "error")
         /\ \A j \in DOMAIN out : ~IsEmit(out[j], "connected")
         /\ ~isConnected /\ room = 0

\* The awaited publishTrack of the playback in slot t settles in this step without a
\* publication (null or an exception).
PublishFails(t) ==
  /\ tasks[t].pc \in {"pl_pub", "lv_pub"}
  /\ tasks'[t].pc # tasks[t].pc
  /\ \A i \in DOMAIN out' : ~(IsEmit(out'[i], "trackPublished") /\ out'[i].t = t)

\* C12: when publishTrack yields no publication, the play() call rejects in that step and
\* "error" is emitted, and the connection is left as it was.
C12_PublishFailureRejectsPlay ==
  [][\A t \in Slots :
       PublishFails(t)
         => /\ \E i \in DOMAIN out' :
                 out'[i].op = "throw" /\ out'[i].x = "play" /\ out'[i].t = t
            /\ \E i \in DOMAIN out' : IsEmit(out'[i], "error") /\ out'[i].t = t
            /\ UNCHANGED <<isConnected, room>>]_vars

\* C13: when the decoder of a playback fails, that step rejects the play() call after
\* emitting "audioError", and leaves the connection and the recorded tracks as they were.
C13_DecodeFailureRejectsPlay ==
  [][\A i \in DOMAIN out' :
       (out'[i].op \in {"ret", "throw", "hang"} /\ out'[i].x = "play" /\ out'[i].y = "decode")
         => /\ out'[i].op = "throw"
            /\ \E j \in 1 .. i : IsEmit(out'[j], "audioError") /\ out'[j].t = out'[i].t
            /\ UNCHANGED <<isConnected, room, publications>>]_vars

\* C14: every chunk a playback hands to captureFrame comes later in decode order than
\* every chunk it handed over before.
C14_ChunksInDecodeOrder ==
  [][\A i \in DOMAIN out' :
       out'[i].op = "captureFrame"
         => tasks[out'[i].t].last = 0 \/ out'[i].k < tasks[out'[i].t].last]_vars

C14_Witness ==
  \E i \in DOMAIN out :
    /\ out[i].op = "captureFrame" /\ out[i].x = "live" /\ out[i].k = 1
    /\ tasks[out[i].t].infl = 2

\* captureFrame calls of the playback in slot t that have not settled.
InFlight(t) == tasks[t].infl + (IF tasks[t].pc = "pl_frame" THEN 1 ELSE 0)

\* C15: at most one captureFrame call of the session is pending at any time.
C15_OneChunkOutstanding == InFlight(1) + InFlight(2) <= 1

\* Tasks whose connect() is between its first join request and the end of its handshake.
Negotiating == {t \in Slots : tasks[t].pc \in {"co_post1", "co_del", "co_post2", "co_force", "co_hs"}}

\* C16: at most one connect() of the session is negotiating at a time, at most one
\* transport is open, and no transport other than the one the session holds is connected.
C16_OneNegotiation ==
  /\ Cardinality(Negotiating) <= 1
  /\ Cardinality({r \in RoomIds : rooms[r].st \in {"connecting", "connected"}}) <= 1
  /\ room # 0 => \A r \in RoomIds : r # room => rooms[r].st # "connected"

\* C17: no two playbacks of the session are both in a delivery loop that goes on calling
\* captureFrame.
C17_OneDeliveryLoop == Cardinality({t \in Slots : Delivering(t)}) <= 1

\* C18: the volume is always within [0.0, 2.0]: 1.0 initially, and still in range after
\* any sequence of setVolume, increaseVolume, decreaseVolume, mute and unmute with
\* arbitrary arguments; setVolume(level) stores min(2, max(0, level)).
C18_VolumeInRange ==
  /\ ~volume.nan /\ 0 <= volume.q /\ volume.q <= 8
  /\ \A i \in DOMAIN out :
       (out[i].op = "call" /\ out[i].x = "setVolume" /\ ~out[i].arg.nan)
         => volume.q = (IF out[i].arg.q < 0 THEN 0 ELSE IF out[i].arg.q > 8 THEN 8
                        ELSE out[i].arg.q)

\* A volume within [0.0, 2.0].
InRange(v) == ~v.nan /\ 0 <= v.q /\ v.q <= 8

\* y is n/4 rounded to the nearest integer (a half towards +Infinity), then clamped to
\* the signed 16-bit range.
RoundedAndClamped(y, n) ==
  /\ Int16Min <= y /\ y <= Int16Max
  /\ \/ 4 * y - 2 <= n /\ n < 4 * y + 2
     \/ y = Int16Max /\ n >= 4 * y + 2
     \/ y = Int16Min /\ n < 4 * y - 2

\* C19: for every volume v in [0, 2] and every 16-bit sample s, applyVolume (the
\* player's and NodeAVProcessor's) yields max(-32768, min(32767, round(s*v))): every
\* output sample is within [-32768, 32767], the output is as long as the input, and
\* at v = 1.0 the output is the input.
C19_ApplyVolumeClamps ==
  \A i \in DOMAIN out :
    (out[i].op = "call" /\ out[i].x \in {"applyVolume", "NodeAVProcessor.applyVolume"}
       /\ InRange(out[i].arg.v))
      => LET pcm == out[i].arg.pcm
             v == out[i].arg.v
             res == out[i].res
         IN /\ Len(res) = Len(pcm)
            /\ \A j \in 1 .. Len(pcm) : RoundedAndClamped(res[j], pcm[j] * v.q)
            /\ v = Num(4) => res = pcm

\* The player applies a gain of 2.0 to a chunk holding the largest and the smallest
\* sample; both saturate.
C19_Witness ==
  \E i \in DOMAIN out :
    /\ out[i].op = "call" /\ out[i].x = "applyVolume"
    /\ out[i].arg.v = Num(8)
    /\ out[i].arg.pcm = <<Int16Max, Int16Min>>
    /\ out[i].res = <<Int16Max, Int16Min>>

\* The kind the precedence of C20 gives an input: stream, else url, else file.
Precedence(input) ==
  IF input.stream THEN "playStream"
  ELSE IF input.str /\ input.scheme \in {"http:", "https:"} THEN "playUrl"
  ELSE IF input.str /\ input.exists THEN "playFile"
  ELSE "invalid"

\* C20: play(input) classifies its input in a fixed precedence: a Readable is a stream;
\* otherwise a string that parses as an absolute http/https URL is a url, even if a file
\* of that name exists; otherwise a string naming an existing file is a file; otherwise
\* the call fails. A failed classification starts no negotiation, publishes nothing,
\* emits nothing and leaves the session state unchanged.
C20_InputPrecedence ==
  [][\A t \in Slots :
       (Len(out') > 0 /\ out'[1].op = "call" /\ out'[1].x = "play" /\ out'[1].t = t)
         => LET kind == Precedence(out'[1].arg) IN
            IF kind = "invalid"
              THEN /\ Len(out') = 2
                   /\ out'[2].op = "throw" /\ out'[2].x = "play" /\ out'[2].t = t
                   /\ tasks'[t].pc = "idle"
                   /\ \A u \in Slots \ {t} : tasks'[u] = tasks[u]
                   /\ UNCHANGED <<channelId, room, rooms, publications, audioSources,
                                  isConnected, shouldStop, isStreaming, onceDisconnected,
                                  nSources, volume>>
              ELSE /\ tasks'[t].pc # "idle"
                   /\ tasks'[t].stk[1] = kind
                   /\ \A i \in DOMAIN out' : out'[i].op # "throw"
                   /\ kind = "playStream"
                        <=> \E i \in DOMAIN out' :
                              IsEmit(out'[i], "audioStart") /\ out'[i].y = "stream"]_vars

\* play("https://...") where a file of that very name exists, on a connected session:
\* the call runs playFromUrl.
C20_Witness ==
  \E t \in Slots :
    /\ Len(out) > 0 /\ out[1].op = "call" /\ out[1].x = "play" /\ out[1].t = t
    /\ out[1].arg = StringInput("https:", TRUE)
    /\ tasks[t].pc # "idle" /\ tasks[t].stk[1] = "playUrl"
    /\ isConnected

\* The response to the GET of playback t arrived with status 200 in this step.
Answered200(t) ==
  /\ Len(out') > 0 /\ out'[1].op = "response" /\ out'[1].t = t
  /\ out'[1].arg.response.status = "200"

\* The URL carries a stream/radio naming hint, in whatever case.
Hinted(url) == url # "none"

DeliveredLive(t) ==
  /\ isStreaming'
  /\ \A i \in DOMAIN out' : ~IsEmit(out'[i], "conversionStart")
  /\ tasks'[t].pc # "idle" => tasks'[t].mode = "live" /\ tasks'[t].pc \in {"lv_lp", "lv_pub"}

DeliveredFinite(t) ==
  /\ ~isStreaming'
  /\ \E i \in DOMAIN out' : IsEmit(out'[i], "conversionStart")
  /\ tasks'[t].mode = "finite" /\ tasks'[t].pc = "pl_decode"

\* C21 as stated: live when the response has no content-length or the URL carries a
\* stream/radio hint; finite when it has a content-length and the URL carries no hint,
\* whatever the content type.
C21_ModeByLengthAndName ==
  [][\A t \in Slots :
       Answered200(t)
         => IF ~out'[1].arg.response.cl \/ Hinted(out'[1].arg.url)
              THEN DeliveredLive(t) ELSE DeliveredFinite(t)]_vars

\* C21 amended: as stated, but a response of content type application/ogg is delivered
\* in live mode as well; every playback is delivered in exactly one of the two modes.
C21_ModeByLengthNameAndOgg ==
  [][\A t \in Slots :
       Answered200(t)
         => /\ IF \/ ~out'[1].arg.response.cl
                  \/ Hinted(out'[1].arg.url)
                  \/ out'[1].arg.response.ctype = "application/ogg"
                 THEN DeliveredLive(t) ELSE DeliveredFinite(t)
            /\ ~(DeliveredLive(t) /\ DeliveredFinite(t))]_vars

\* A URL without a hint answered with a content-length and the type application/ogg:
\* the playback is in live mode.
C21_Witness ==
  \E t \in Slots :
    /\ Len(out) > 0 /\ out[1].op = "response" /\ out[1].t = t
    /\ out[1].arg = [url |-> "none", response |-> Response("200", TRUE, "application/ogg")]
    /\ tasks[t].mode = "live" /\ tasks[t].pc = "lv_pub"

\* C22: when a 2-channel frame is converted to 1 channel at an unchanged sample rate,
\* the output has half as many samples, and output sample i is the rounded average of
\* input samples 2i and 2i+1 (a half rounded either way), for all 16-bit sample values.
C22_DownmixAverages ==
  \A e \in DOMAIN out :
    (out[e].op = "call" /\ out[e].x = "convertFrameToTargetFormat"
       /\ out[e].arg.frame.channels = 2 /\ out[e].arg.targetChannels = 1)
      => LET data == out[e].arg.frame.data
             res == out[e].res
         IN /\ 2 * Len(res) = Len(data)
            /\ \A i \in 1 .. Len(res) :
                 LET sum == data[2 * i - 1] + data[2 * i]
                 IN 2 * res[i] - 1 <= sum /\ sum <= 2 * res[i] + 1

\* The event is a call of the transport made by the disconnect() in slot t.
ByDisconnect(e, t, op) ==
  /\ e.op = op /\ e.t = t
  /\ \E i \in 1 .. Len(tasks'[t].stk) : tasks'[t].stk[i] = "disconnect"

\* C23: a disconnect() on a session holding a transport attempts to unpublish every
\* recorded track before it calls the transport's disconnect: when it calls
\* room.disconnect() it has called unpublishTrack for every track recorded, it calls
\* unpublishTrack no more afterwards, and it calls room.disconnect() also when an
\* unpublishTrack failed (as long as the session still holds the transport).
C23_UnpublishBeforeRelease ==
  [][\A t \in Slots :
       /\ \A i \in DOMAIN out' :
            ByDisconnect(out'[i], t, "room.disconnect")
              => /\ publications \subseteq tasks'[t].tried
                 /\ \A j \in DOMAIN out' : j > i => ~ByDisconnect(out'[j], t, "unpublishTrack")
       /\ tasks[t].pc = "dc_room"
            => \A j \in DOMAIN out' : ~(out'[j].op = "unpublishTrack" /\ out'[j].t = t)
       /\ \A i \in DOMAIN out' :
            (out'[i].op \in {"ret", "throw"} /\ out'[i].x = "disconnect" /\ out'[i].t = t
               /\ out'[i].y = "unpublish-failed" /\ room # 0)
              => tasks[t].pc = "dc_room"]_vars

\* disconnect() has called room.disconnect() on Room r: the call is pending or has
\* released the Room.
ManuallyDisconnected(r) ==
  \/ rooms[r].st = "released"
  \/ \E t \in Slots : tasks[t].pc = "dc_room" /\ tasks[t].rm = r

\* C24: each loss of connection is notified once, with the correct reason: a
\* disconnect() of a connected session that completes emits exactly one disconnected
\* notification, with reason manual; a notification with reason unexpected is emitted
\* only when the transport lost the connection without disconnect() having been called,
\* also when the transport fires Disconnected as a consequence of the manual call.
C24_DisconnectedOnceWithReason ==
  [][/\ \A t \in Slots :
          (tasks[t].pc = "dc_room" /\ rooms[tasks[t].rm].st = "connected" /\ isConnected
             /\ \E i \in DOMAIN out' : out'[i].op = "ret" /\ out'[i].x = "disconnect"
                                         /\ out'[i].t = t)
            => /\ Cardinality({i \in DOMAIN out' : IsEmit(out'[i], "disconnected")}) = 1
               /\ \A i \in DOMAIN out' : IsEmit(out'[i], "disconnected") => out'[i].y = "manual"
     /\ \A i \in DOMAIN out' :
          (IsEmit(out'[i], "disconnected") /\ out'[i].y = "unexpected")
            => \A j \in DOMAIN out' :
                 out'[j].op = "Disconnected" => ~ManuallyDisconnected(out'[j].n)]_vars

\* The connect() in slot t awaits an answer of the signaling endpoint.
AwaitsEndpoint(t) == tasks[t].pc \in {"co_post1", "co_del", "co_post2", "co_force"}

\* C25: connect() always settles: a negotiation that awaits an answer of the signaling
\* endpoint ends, by the answer or by a timeout, whether or not the endpoint answers.
C25_ConnectSettles == \A t \in Slots : AwaitsEndpoint(t) ~> ~AwaitsEndpoint(t)

\* C27: the capability-detection result is immutable after first use: two playbacks
\* never select different decoders because the capability probe completed between
\* their reads of isNodeAVAvailable().
C27_OneDecoderPerProcess ==
  \A t, u \in Slots :
    (tasks[t].dec # "-" /\ tasks[u].dec # "-") => tasks[t].dec = tasks[u].dec

\* C26: the registry holds at most one player per server id; connectToChannel(channel,
\* server) returns the player already registered for the server instead of creating a
\* second one; and once a disconnectFromChannel(server) has settled, no player is
\* registered for that server, whether or not the player's disconnect succeeded.
C26_RegistryOnePerServer ==
  [][/\ \A srv \in Servers :
          (Len(out') > 0 /\ out'[1].op = "call" /\ out'[1].x = "connectToChannel"
             /\ out'[1].y = srv /\ players[srv] # 0)
            => players'[srv] = players[srv] /\ nPlayers' = nPlayers
     /\ \A i \in DOMAIN out' :
          (out'[i].op = "ret" /\ out'[i].x = "connectToChannel")
            => out'[i].n = vtasks[out'[i].t].player /\ out'[i].n # 0
     /\ \A i \in DOMAIN out' :
          (out'[i].op \in {"ret", "throw"} /\ out'[i].x = "disconnectFromChannel")
            => players'[out'[i].y] = 0]_vars

\* The request log of a connect() whose first join failed with another error than
\* AlreadyConnected.
PlainFailure(q) == Len(q) >= 1 /\ q[1].m = "POST" /\ q[1].r = "error"

\* C28: conflict recovery is attempted only for AlreadyConnected: when the first join
\* fails with another error, connect() rejects with that error in that very step, after
\* emitting "error"; it sends no DELETE and no forced join, opens no Room, emits no
\* "connected", and leaves the connection state as it was.
C28_RecoveryOnlyForConflict ==
  [][/\ \A t \in Slots :
          /\ ~PlainFailure(tasks'[t].reqs)
          /\ Len(tasks'[t].reqs) >= 2 => tasks'[t].reqs[1] = [m |-> "POST", r |-> "AlreadyConnected"]
     /\ \A i \in DOMAIN out' :
          (out'[i].op = "throw" /\ out'[i].x = "connect"
             /\ (out'[i].y = "join-error" \/ PlainFailure(out'[i].q)))
            => /\ out'[i].q = <<[m |-> "POST", r |-> "error"]>>
               /\ out'[i].y = "join-error"
               /\ \E j \in 1 .. i : IsEmit(out'[j], "error")
               /\ \A j \in DOMAIN out' :
                    /\ ~IsEmit(out'[j], "connected")
                    /\ out'[j].op \notin {"POST", "DELETE", "FORCE", "room.new", "room.connect"}
               /\ UNCHANGED <<isConnected, room, rooms>>]_vars

\* A connect() rejects with the error of its only request, the session not connected.
C28_Witness ==
  \E i \in DOMAIN out :
    /\ out[i].op = "throw" /\ out[i].x = "connect" /\ out[i].y = "join-error"
    /\ out[i].q = <<[m |-> "POST", r |-> "error"]>>
    /\ ~isConnected /\ room = 0

(***************************************************************************)
(* Finite playback: chunking of the buffer and the gain of its chunks      *)
(***************************************************************************)
FiniteFrame(e, t) == e.op = "captureFrame" /\ e.x = "finite" /\ e.t = t

\* ceil(n / 4800)
CeilChunks(n) == (n + SamplesPerChunk - 1) \div SamplesPerChunk

\* Where the frame sent before the pacing wait of task t ended.
PreviousChunkEnd(t) ==
  LET offset == tasks[t].len - tasks[t].last IN
  IF offset + SamplesPerChunk < tasks[t].len THEN offset + SamplesPerChunk ELSE tasks[t].len

\* C29: in finite mode, with no stop and no frame error, a buffer of N samples is sent
\* as ceil(N/4800) frames: the first frame starts at sample 0 and is sent when the track
\* is published, every other frame is sent when a pacing wait ends and starts where the
\* frame before it ended; a frame holds 4800 samples, or what remains of the buffer when
\* that is less, and never holds none; a handed-over frame is followed by the pacing
\* wait; the playback returns, not stopped, only when the buffer is sent to its end, and
\* a buffer of no sample returns without sending a frame.
C29_ChunksCoverBuffer ==
  [][\A t \in Slots :
       LET N == tasks[t].len IN
       /\ \A i \in DOMAIN out' :
            FiniteFrame(out'[i], t) =>
              LET c == out'[i].arg IN
              /\ c.offset = (IF tasks[t].pc = "pl_pub" THEN 0 ELSE PreviousChunkEnd(t))
              /\ tasks[t].pc \in {"pl_pub", "pl_wait"}
              /\ c.offset % SamplesPerChunk = 0
              /\ c.offset \div SamplesPerChunk < CeilChunks(N)
              /\ c.chunkEnd = (IF c.offset + SamplesPerChunk < N
                                 THEN c.offset + SamplesPerChunk ELSE N)
              /\ c.chunkEnd > c.offset
              /\ tasks'[t].pc = "pl_frame"
       /\ (tasks[t].pc = "pl_frame" /\ tasks'[t].pc # "pl_frame") => tasks'[t].pc = "pl_wait"
       /\ (/\ tasks[t].pc \in {"pl_pub", "pl_wait"} /\ tasks[t].mode = "finite"
           /\ ~shouldStop
           /\ \E i \in DOMAIN out' : out'[i].op = "ret" /\ out'[i].x = "play" /\ out'[i].t = t)
            => /\ \A i \in DOMAIN out' : ~FiniteFrame(out'[i], t)
               /\ IF tasks[t].pc = "pl_pub" THEN N = 0 ELSE PreviousChunkEnd(t) = N
               /\ tasks[t].pc = "pl_wait"
                    => (N - tasks[t].last) \div SamplesPerChunk = CeilChunks(N) - 1]_vars

\* The third and last frame of a buffer of 9601 samples holds its last sample alone.
C29_Witness ==
  \E t \in Slots, i \in DOMAIN out :
    /\ FiniteFrame(out[i], t)
    /\ tasks[t].len = 2 * SamplesPerChunk + 1
    /\ out[i].arg.offset = 2 * SamplesPerChunk /\ out[i].arg.chunkEnd = tasks[t].len

\* C30: in finite mode the volume is applied once per playback, when its transmission
\* is prepared: the gain of the buffer is the volume at the step that ends the decoding,
\* it stays what it is until the playback ends, and every frame carries samples of that
\* gain, whatever the volume is when the frame is sent.
C30_GainFixedAtPreparation ==
  [][\A t \in Slots :
       /\ (tasks[t].pc = "pl_decode" /\ tasks'[t].pc \in {"pl_pub", "pl_frame"})
            => tasks'[t].gain = volume
       /\ (tasks[t].pc \in {"pl_pub", "pl_frame", "pl_wait"} /\ tasks'[t].pc # "idle")
            => tasks'[t].gain = tasks[t].gain
       /\ \A i \in DOMAIN out' :
            (FiniteFrame(out'[i], t) /\ tasks[t].pc \in {"pl_pub", "pl_wait"})
              => out'[i].arg.gain = tasks[t].gain]_vars

\* A frame that is not the first of its buffer is sent with the gain 1.0 the buffer was
\* prepared with, the volume being 0.5 or 0 since.
C30_Witness ==
  \E t \in Slots, i \in DOMAIN out :
    /\ FiniteFrame(out[i], t)
    /\ out[i].arg.offset > 0
    /\ out[i].arg.gain = Num(4)
    /\ volume # Num(4)

(***************************************************************************)
(* Frame failures, single tracks, the streaming flag, sources and tracks   *)
(***************************************************************************)
\* A captureFrame awaited by the playback in slot t rejects in this step.
FrameRejected(e, t) == e.op = "reject" /\ e.x = "captureFrame" /\ e.t = t

PlaySettles(e, t) == e.op \in {"ret", "throw", "hang"} /\ e.x = "play" /\ e.t = t

\* C31: when a captureFrame rejects and no stop was requested, the step ends no
\* playback: play() neither returns nor rejects nor is abandoned, the chunk is not handed
\* over again, and what remains to be sent is what remained, less that chunk: in finite
\* mode the loop goes to its pacing wait with the offset moved past the chunk, and the
\* frame sent after a wait starts where the frame before it ended; in live mode the
\* decoder's remaining chunks and the flags their handlers test are unchanged, whatever
\* the error is.
C31_FrameFailureIsSkipped ==
  [][\A t \in Slots :
       /\ \A i \in DOMAIN out' :
            (FrameRejected(out'[i], t) /\ ~shouldStop)
              => /\ \A j \in DOMAIN out' :
                      ~PlaySettles(out'[j], t) /\ out'[j].op # "captureFrame"
                 /\ tasks[t].mode = "finite"
                      => /\ tasks'[t].pc = "pl_wait"
                         /\ tasks'[t].left
                              = tasks[t].left - (IF tasks[t].left < SamplesPerChunk
                                                   THEN tasks[t].left ELSE SamplesPerChunk)
                 /\ tasks[t].mode = "live"
                      => /\ tasks'[t].pc = tasks[t].pc
                         /\ tasks'[t].left = tasks[t].left
                         /\ tasks'[t].killed = tasks[t].killed
                         /\ UNCHANGED <<isStreaming, shouldStop>>
       /\ \A i \in DOMAIN out' :
            (FiniteFrame(out'[i], t) /\ tasks[t].pc = "pl_wait")
              => out'[i].arg.offset = PreviousChunkEnd(t)]_vars

\* The playback in slot t is in its delivery loop, feeding a track other than trk.
FeedsOtherTrack(t, trk) ==
  /\ tasks[t].pc \in {"pl_frame", "pl_wait", "lv_run"}
  /\ tasks[t].src # trk

\* C32: stop(trackId) removes exactly the named track.  At the call: a playback that
\* feeds another track keeps running (the flags its loop tests are not changed); when the
\* track is recorded the only unpublishTrack is for it; when it is not recorded no
\* unpublishTrack is made and the tracks are unchanged.  When the unpublish has
\* succeeded: the track is no longer recorded, trackStopped was emitted for it, and every
\* other recorded track stays recorded.
C32_StopRemovesNamedTrack ==
  [][/\ \A i \in DOMAIN out' :
          (out'[i].op = "call" /\ out'[i].x = "stop" /\ out'[i].n # 0)
            => LET trk == out'[i].n IN
               /\ (\E u \in Slots : FeedsOtherTrack(u, trk))
                    => UNCHANGED <<shouldStop, isStreaming>>
               /\ \A j \in DOMAIN out' : out'[j].op = "unpublishTrack" => out'[j].n = trk
               /\ trk \notin publications
                    => /\ UNCHANGED publications
                       /\ \A j \in DOMAIN out' : out'[j].op # "unpublishTrack"
     /\ \A t \in Slots :
          (tasks[t].pc = "st_unpub1" /\ tasks'[t].pc # "st_unpub1" /\ ~tasks'[t].ufail
             /\ \E j \in DOMAIN out' : out'[j].op = "ret" /\ out'[j].x = "stop" /\ out'[j].t = t)
            => /\ publications' = publications \ {tasks[t].trk}
               /\ \E j \in DOMAIN out' :
                    IsEmit(out'[j], "trackStopped") /\ out'[j].n = tasks[t].trk]_vars

\* C33: streaming is a sub-state of connected: the streaming flag is set only while the
\* session is connected and holds a transport.
C33_StreamingOnlyWhenConnected == isStreaming => (isConnected /\ room # 0)

\* A publishTrack call of some playback is pending.
PublishInProgress == \E t \in Slots : tasks[t].pc \in {"pl_pub", "lv_pub"}

\* C34: audio sources and published tracks are recorded and removed together: while no
\* publish is in progress there are as many recorded audio sources as recorded tracks.
C34_SourcesMatchTracks ==
  ~PublishInProgress => Cardinality(audioSources) = Cardinality(publications)

\* The playback in slot t emits one of the given notifications in this step.
Notifies(t, names) == \E i \in DOMAIN out : out[i].op = "emit" /\ out[i].x \in names /\ out[i].t = t

\* C35: every audioStart is followed, in the same step or later, by an audioEnd or an
\* audioError of that playback.
C35_StartedPlaybackEnds ==
  \A t \in Slots : Notifies(t, {"audioStart"}) ~> Notifies(t, {"audioEnd", "audioError"})

AudioEndOf(e, t) == e.op = "emit" /\ e.x = "audioEnd" /\ e.t = t

\* The type of the audioStart that play() emits for the kind of its input.
StartedAs(kind) == IF kind = "playStream" THEN "stream" ELSE IF kind = "playFile" THEN "file" ELSE "url"

\* C36: a play() call emits at most one audioEnd: a step emits at most one, and none
\* once the end callback of the call's live decoder has emitted one; the audioEnd is
\* emitted while the call is delivering, that is after its audioStart, and it carries the
\* descriptor and the type of the audioStart.
C36_OneMatchingAudioEnd ==
  [][\A t \in Slots :
       /\ Cardinality({i \in DOMAIN out' : AudioEndOf(out'[i], t)}) <= 1
       /\ tasks[t].pc = "lv_run2" => \A i \in DOMAIN out' : ~AudioEndOf(out'[i], t)
       /\ \A i \in DOMAIN out' :
            AudioEndOf(out'[i], t)
              => /\ tasks[t].pc \in {"pl_pub", "pl_wait", "lv_run"}
                 /\ out'[i].y = StartedAs(tasks[t].stk[1])
                 /\ out'[i].n = 0]_vars

\* C37: a Disconnected event of a Room that is not the session's transport changes
\* nothing of the session: the transport handle, the connected flag, the recorded tracks
\* and audio sources are unchanged and no "disconnected" is emitted, so that a connected
\* session keeps its transport.
C37_StaleTransportIsIgnored ==
  [][\A i \in DOMAIN out' :
       (out'[i].op = "Disconnected" /\ out'[i].n # room)
         => /\ UNCHANGED <<room, isConnected, publications, audioSources>>
            /\ \A j \in DOMAIN out' : ~IsEmit(out'[j], "disconnected")
            /\ isConnected' => room' # 0]_vars

\* C38: the channel the session reports is the channel it is connected to: when a
\* connect(c) returns, this.channelId, which getStatus() and the "disconnected"
\* notification report, is c.
C38_ReportsConnectedChannel ==
  [][\A i \in DOMAIN out' :
       (out'[i].op = "ret" /\ out'[i].x = "connect") => channelId' = out'[i].ch]_vars

(***************************************************************************)
(* RateLimitQueue                                                          *)
(***************************************************************************)
\* C39: every queued request is eventually dispatched, and a request that arrives while
\* earlier requests of the bucket are queued is not dispatched at its arrival.
C39_QueuedRequestsAreDispatched ==
  /\ \A id \in RequestIds : (requests[id].st = "queued") ~> (requests[id].st # "queued")
  /\ [][\A id \in RequestIds :
          (requests[id].st = "none" /\ requests'[id].st = "sent")
            => bucketMap.queue = <<>>]_vars

\* C40: the promise request() returned settles with the outcome of the HTTP call: it
\* resolves when axios resolves and rejects when axios rejects, for a queued request as
\* for one dispatched at once.
C40_PromiseSettlesWithOutcome ==
  [][\A i \in DOMAIN out' :
       out'[i].op = "settles"
         => requests'[out'[i].t].st = (IF out'[i].x = "response" THEN "resolved" ELSE "rejected")]_vars

====
